---------------------------- MODULE Spec2Model ----------------------------
(***************************************************************************)
(* Domain-rank history tracker: the snapshot merge (process_csv_data), the *)
(* chunked importer with its checkpoint file (process_commit_chunk), the   *)
(* daily tracker (update_database) and the rank-change analyzer            *)
(* (calculate_rank_changes).                                               *)
(*                                                                         *)
(* Dates are the 'YYYY-MM-DD' strings of the code.  The code only compares *)
(* them (string <, which for this format is the calendar order) and uses   *)
(* them as dictionary keys, so a date is modelled by its position 1, 2, .. *)
(* in calendar order.                                                      *)
(***************************************************************************)
EXTENDS Integers, Sequences, FiniteSets, TLC

\* ------------------------------------------------------------- bounds
MaxDate == 2
MaxMerges == 2

\* the data the snapshots are made of
Domains == {"a.com", "b.com", "c.com"}
Ranks == {1, 2, 3}
Dates == 1..MaxDate

\* ------------------------------------------------------------- state
VARIABLES
  rankings,     \* domains_rankings: domain -> (date -> rank), both partial
  first_seen,   \* domains_first_seen: domain -> date, partial
  log           \* history of the merges applied: <<[by, date, rows], ...>>

\* the chunked importer (import_historical_data_chunked.py)
VARIABLES
  extracts,     \* historical_extracts/<date>: what the directory of a date holds
  chunk_id,     \* the chunk id process_commit_chunk is called with
  ckptFile,     \* import_checkpoint.json
  mainFiles,    \* domains_first_seen.parquet and domains_rankings.parquet
  chunkFiles,   \* domains_*_chunk_<id>.parquet, by chunk id
  pc,           \* where the run of process_commit_chunk is
  checkpoint,   \* its local checkpoint
  processed_commits,      \* its local set processed_commits
  idx,                    \* the loop index i (1-based)
  total_processed,
  total_domains_updated,
  runs,         \* how many times process_commit_chunk was started
  killedAfterRecord,  \* a run was killed while the checkpoint file listed a snapshot
  main0         \* the main store files as the first run found them

\* the rank change analyzer (rank_change_analyzer.py)
VARIABLES
  df,           \* the rankings table handed to calculate_rank_changes
  request,      \* the start and end date it was called with
  result        \* what it returned

\* the daily tracker (your_script_name.py)
VARIABLES
  hist,         \* the history files: first-seen CSV and rankings CSV
  db,           \* the SQLite file: domains table and this year's rankings table
  zip_file,     \* the downloaded snapshot
  today,        \* datetime.now(), as a date
  process_history,  \* the dates listed in the process history file
  runlog        \* the calls of update_database so far, with what they returned

\* the SQLite import of the full store (update_database of import_historical_data.py)
VARIABLES
  sq_disk,      \* the database file: what is committed
  sq_conn,      \* the database as the open connection sees it
  sq_pc,        \* where the call of update_database is
  sq_store,     \* the store it was called with
  sq_before,    \* the database file when the call began
  sq_i,         \* position in sorted(year_dates) of the column loop
  sq_failed,    \* the date columns whose ALTER TABLE raised
  sq_writes,    \* the row statements sent to the rankings table
  sq_outcome,   \* how the latest call ended
  sq_calls      \* number of calls begun

\* the report of the analyzer (generate_report of rank_change_analyzer.py)
VARIABLES
  rp_frame,     \* changes_df, reduced to row ids and rank_change
  rp_report     \* the three lists written

\* the born-date lookup (fetch_borndate of domain_borndate_revved.py)
VARIABLES
  fb_session,   \* whether the caller passed a session
  fb_net,       \* what the successive HTTP requests will meet
  fb_pc,        \* where fetch_borndate is
  fb_attempt,   \* the loop variable attempt
  fb_requests,  \* HTTP requests sent so far
  fb_sleeps,    \* asyncio.sleep(1) calls so far
  fb_result     \* the second component of the returned pair

\* the enrichment of the day's new domains (process_domains / process_batch of
\* domain_borndate_revved.py)
VARIABLES
  bt_txt_files,   \* the number of .txt files glob finds in new_domains
  bt_pc,          \* where process_domains or process_batch is
  bt_batch,       \* len(batch_domains) of the call of process_batch
  bt_in_flight,   \* fetch_borndate tasks started by gather and not yet finished
  bt_results      \* len(results)

\* main() of import_historical_data_chunked.py called for one chunk after another
VARIABLES
  or_last,        \* last_processed_chunk of import_checkpoint.json
  or_calls        \* the calls of process_commit_chunk so far and how each ended

\* the date cursor (generated process_commits.py driving process_single_commit)
VARIABLES
  cu_cursor,      \* the date in last_processed_date.txt
  cu_pc,          \* where main of process_commits.py is
  cu_todo,        \* commits_to_process
  cu_k,           \* position of the loop in commits_to_process
  cu_count,       \* commit_count
  cu_max,         \* --max-commits of the run
  cu_saved,       \* the dates whose snapshot is merged into the saved store
  cu_runs         \* runs of process_commits.py begun

mergeVars == <<rankings, first_seen, log>>
chunkVars == <<extracts, chunk_id, ckptFile, mainFiles, chunkFiles, pc, checkpoint,
               processed_commits, idx, total_processed, total_domains_updated,
               runs, killedAfterRecord, main0>>
calcVars == <<df, request, result>>
trackVars == <<hist, db, zip_file, today, process_history, runlog>>
sqlVars == <<sq_disk, sq_conn, sq_pc, sq_store, sq_before, sq_i, sq_failed,
             sq_writes, sq_outcome, sq_calls>>
reportVars == <<rp_frame, rp_report>>
fetchVars == <<fb_session, fb_net, fb_pc, fb_attempt, fb_requests, fb_sleeps,
               fb_result>>
batchVars == <<bt_txt_files, bt_pc, bt_batch, bt_in_flight, bt_results>>
orderVars == <<or_last, or_calls>>
cursorVars == <<cu_cursor, cu_pc, cu_todo, cu_k, cu_count, cu_max, cu_saved,
                cu_runs>>
driverVars == <<batchVars, orderVars, cursorVars>>
toolVars == <<sqlVars, reportVars, fetchVars, driverVars>>
notSqlVars == <<mergeVars, chunkVars, calcVars, trackVars, reportVars, fetchVars,
                driverVars>>
notDriverVars == <<mergeVars, chunkVars, calcVars, trackVars, sqlVars, reportVars,
                   fetchVars>>
nonImportVars == <<calcVars, trackVars, toolVars>>
vars == <<mergeVars, chunkVars, calcVars, trackVars, toolVars>>

\* ------------------------------------------------------------- dictionaries
EmptyMap == [x \in {} |-> 0]

\* d[k] = v of a Python dict
Put(f, k, v) == [x \in (DOMAIN f) \cup {k} |-> IF x = k THEN v ELSE f[x]]

Min(S) == CHOOSE x \in S : \A y \in S : x <= y

\* ------------------------------------------------------------- CSV rows
(***************************************************************************)
(* A row as csv.reader yields it, reduced to what the code reads of it:    *)
(*   n      the number of fields (len(row))                                *)
(*   cls    the class of field 0: "digits" (str.isdigit() holds, int()     *)
(*          parses), "signed" (int(strip()) parses, isdigit() does not:    *)
(*          '-1', ' 7'), "alpha" (isalpha() holds: a header word),         *)
(*          "other" (none of these: '', '1.5')                             *)
(*   rank   int(row[0].strip()) when it parses                             *)
(*   domain row[1].strip() when n >= 2                                     *)
(***************************************************************************)
Row(rank, domain) == [n |-> 2, cls |-> "digits", rank |-> rank, domain |-> domain]

IsDigit(row) == row.cls = "digits"
IsAlpha(row) == row.cls = "alpha"
IntParses(row) == row.cls \in {"digits", "signed"}

\* ------------------------------------------------------------- process_csv_data
\* domains_rankings[domain][date] = rank, creating the domain's dict first
SetRankAccumulate(rk, domain, date, rank) ==
  LET cells == IF domain \in DOMAIN rk THEN rk[domain] ELSE EmptyMap
      old == IF date \in DOMAIN cells THEN cells[date] ELSE 0
  IN Put(rk, domain, Put(cells, date, old + rank))

\* the domain's dict made anew for every row, dropping its other dates
SetRankFresh(rk, domain, date, rank) ==
  Put(rk, domain, Put(EmptyMap, date, rank))

SetRank(rk, domain, date, rank) ==
  LET cells == IF domain \in DOMAIN rk THEN rk[domain] ELSE EmptyMap
  IN Put(rk, domain, Put(cells, date, rank))

\* if domain not in domains_first_seen or date < domains_first_seen[domain]
UpdateFirstSeenNoLowering(fs, domain, date) ==
  IF domain \notin DOMAIN fs THEN Put(fs, domain, date) ELSE fs

UpdateFirstSeen(fs, domain, date) ==
  IF domain \notin DOMAIN fs \/ date < fs[domain] THEN Put(fs, domain, date) ELSE fs

\* every known domain that is not in the file and has no cell for date gets 0
ZeroFillInverted(rk, current_domains, date) ==
  [d \in DOMAIN rk |->
     IF d \in current_domains /\ date \notin DOMAIN rk[d]
       THEN Put(rk[d], date, 0)
       ELSE rk[d]]

ZeroFill(rk, current_domains, date) ==
  [d \in DOMAIN rk |->
     IF d \notin current_domains /\ date \notin DOMAIN rk[d]
       THEN Put(rk[d], date, 0)
       ELSE rk[d]]

\* one pass of the row loop, for a row the length test has let through
MergeRow(st, row, date) ==
  IF IntParses(row)
    THEN [rankings |-> SetRank(st.rankings, row.domain, date, row.rank),
          first_seen |-> UpdateFirstSeen(st.first_seen, row.domain, date),
          current_domains |-> st.current_domains \cup {row.domain}]
    ELSE st

\* if len(row) >= 2: ...
ProcessRow(st, row, date) == IF row.n >= 2 THEN MergeRow(st, row, date) ELSE st

RECURSIVE ProcessRows(_, _, _, _)
ProcessRows(data, k, st, date) ==
  IF k > Len(data) THEN st
  ELSE ProcessRows(data, k + 1, ProcessRow(st, data[k], date), date)

\* if len(row) == 2: ... (import_historical_data.py)
ProcessRowLegacy(st, row, date) == IF row.n = 2 THEN MergeRow(st, row, date) ELSE st

RECURSIVE ProcessRowsLegacy(_, _, _, _)
ProcessRowsLegacy(data, k, st, date) ==
  IF k > Len(data) THEN st
  ELSE ProcessRowsLegacy(data, k + 1, ProcessRowLegacy(st, data[k], date), date)

\* the list the row loop runs over: the reader minus a leading header row
DataRows(reader) ==
  IF reader[1].n >= 1 /\ ~IsDigit(reader[1]) THEN Tail(reader) ELSE reader

\* process_csv_data with an empty reader treated as a file of no rows
ProcessCsvDataEmptyAsNoRows(reader, date, rk, fs) ==
  LET st == ProcessRows(IF reader = <<>> THEN <<>> ELSE DataRows(reader), 1,
              [rankings |-> rk, first_seen |-> fs, current_domains |-> {}],
              date)
  IN [rankings |-> ZeroFill(st.rankings, st.current_domains, date),
      first_seen |-> st.first_seen,
      updated |-> Cardinality(st.current_domains)]

(***************************************************************************)
(* process_csv_data(reader, date, domains_rankings, domains_first_seen) of *)
(* import_historical_data_chunked.py: the two dictionaries after the call  *)
(* and the returned count.  An empty reader makes first_row None, the row  *)
(* loop raises TypeError on it before touching anything, and the outer     *)
(* except returns 0.                                                       *)
(***************************************************************************)
ProcessCsvData(reader, date, rk, fs) ==
  IF reader = <<>>
    THEN [rankings |-> rk, first_seen |-> fs, updated |-> 0]
    ELSE LET st == ProcessRows(DataRows(reader), 1,
                     [rankings |-> rk, first_seen |-> fs, current_domains |-> {}],
                     date)
         IN [rankings |-> ZeroFill(st.rankings, st.current_domains, date),
             first_seen |-> st.first_seen,
             updated |-> Cardinality(st.current_domains)]

(***************************************************************************)
(* process_csv_data of import_historical_data.py: no return value.  An     *)
(* empty file returns at once; a first row with no field at all makes      *)
(* data[0][0] raise IndexError, which leaves the function before it has     *)
(* changed anything; a first row whose field 0 isalpha() is dropped.        *)
(***************************************************************************)
ProcessCsvDataLegacy(reader, date, rk, fs) ==
  IF reader = <<>> \/ reader[1].n = 0
    THEN [rankings |-> rk, first_seen |-> fs, updated |-> 0]
    ELSE LET data == IF IsAlpha(reader[1]) THEN Tail(reader) ELSE reader
             st == ProcessRowsLegacy(data, 1,
                     [rankings |-> rk, first_seen |-> fs, current_domains |-> {}],
                     date)
         IN [rankings |-> ZeroFill(st.rankings, st.current_domains, date),
             first_seen |-> st.first_seen,
             updated |-> Cardinality(st.current_domains)]

\* the merge function of either script
Merge(by, reader, date, rk, fs) ==
  IF by = "legacy" THEN ProcessCsvDataLegacy(reader, date, rk, fs)
  ELSE ProcessCsvData(reader, date, rk, fs)

\* ------------------------------------------------------------- snapshots
CleanRows == {Row(r, d) : r \in Ranks, d \in Domains}

\* a ranking list: at least one row, ranks ascending, one row per domain
IsRankingList(s) ==
  /\ Len(s) >= 1
  /\ \A i \in 1..Len(s), j \in 1..Len(s) :
       i < j => s[i].rank < s[j].rank /\ s[i].domain # s[j].domain

Snapshots ==
  {s \in UNION {[1..n -> CleanRows] : n \in 1..Cardinality(Domains)} : IsRankingList(s)}

\* the domains a snapshot's rows hold
DomainsOf(rows) == {rows[i].domain : i \in 1..Len(rows)}

\* the rank a ranking list gives a domain
RankIn(rows, d) == LET i == CHOOSE i \in 1..Len(rows) : rows[i].domain = d IN rows[i].rank

\* ------------------------------------------------------------- files
NoChunk == -1   \* 'last_processed_chunk': None
NoDate == 0     \* 'last_processed_date': None

\* load_checkpoint's value when there is no checkpoint file
DefaultCheckpoint ==
  [processed_commits |-> {}, last_processed_chunk |-> NoChunk,
   last_processed_date |-> NoDate, total_domains_updated |-> 0]

\* import_checkpoint.json: absent, or as save_checkpoint wrote it; a file
\* that can no longer be parsed keeps in data what it held before
NoCheckpointFile == [exists |-> FALSE, readable |-> FALSE, data |-> DefaultCheckpoint]
CheckpointFileOf(ck) == [exists |-> TRUE, readable |-> TRUE, data |-> ck]

\* load_checkpoint: the default also when the file cannot be read
LoadCheckpoint(file) ==
  IF file.exists /\ file.readable THEN file.data ELSE DefaultCheckpoint

NoFile == [exists |-> FALSE, data |-> EmptyMap]
NoStoreFiles == [fs |-> NoFile, rk |-> NoFile]

\* the importer is not running and has left nothing on disk
ChunkIdle ==
  /\ extracts = EmptyMap
  /\ chunk_id = 0
  /\ ckptFile = NoCheckpointFile
  /\ mainFiles = NoStoreFiles
  /\ chunkFiles = EmptyMap
  /\ pc = "idle"
  /\ checkpoint = DefaultCheckpoint
  /\ processed_commits = {}
  /\ idx = 0
  /\ total_processed = 0
  /\ total_domains_updated = 0
  /\ runs = 0
  /\ killedAfterRecord = FALSE
  /\ main0 = NoStoreFiles

NoDb == [file |-> FALSE, domains_table |-> FALSE, domains |-> EmptyMap,
         rankings |-> EmptyMap]
NoZip == [kind |-> "missing", rows |-> <<>>]

\* the analyzer has not been called
CalcIdle ==
  /\ df = EmptyMap
  /\ request = <<>>
  /\ result = [kind |-> "unset"]

\* the tracker has never run
TrackIdle ==
  /\ hist = NoStoreFiles
  /\ db = NoDb
  /\ zip_file = NoZip
  /\ today = 1
  /\ process_history = {}
  /\ runlog = <<>>

\* the SQLite file does not exist and update_database has not been called
NoSqlDb == [domains |-> EmptyMap, table |-> FALSE, cols |-> {}, rows |-> EmptyMap]

SqlIdle ==
  /\ sq_disk = NoSqlDb
  /\ sq_conn = NoSqlDb
  /\ sq_pc = "idle"
  /\ sq_store = [rankings |-> EmptyMap, first_seen |-> EmptyMap]
  /\ sq_before = NoSqlDb
  /\ sq_i = 0
  /\ sq_failed = {}
  /\ sq_writes = <<>>
  /\ sq_outcome = "none"
  /\ sq_calls = 0

\* generate_report has not been called
ReportIdle ==
  /\ rp_frame = <<>>
  /\ rp_report = [kind |-> "unset"]

\* fetch_borndate has not been called
FetchIdle ==
  /\ fb_session = TRUE
  /\ fb_net = <<>>
  /\ fb_pc = "idle"
  /\ fb_attempt = 0
  /\ fb_requests = 0
  /\ fb_sleeps = 0
  /\ fb_result = [kind |-> "unset"]

\* neither process_domains nor process_batch has been called
BatchIdle ==
  /\ bt_txt_files = 0
  /\ bt_pc = "idle"
  /\ bt_batch = 0
  /\ bt_in_flight = 0
  /\ bt_results = 0

\* no chunk has been asked for and there is no checkpoint
OrderIdle ==
  /\ or_last = NoChunk
  /\ or_calls = <<>>

\* process_commits.py has not run and there is no last_processed_date.txt
CursorIdle ==
  /\ cu_cursor = NoDate
  /\ cu_pc = "idle"
  /\ cu_todo = <<>>
  /\ cu_k = 0
  /\ cu_count = 0
  /\ cu_max = 0
  /\ cu_saved = {}
  /\ cu_runs = 0

DriverIdle == BatchIdle /\ OrderIdle /\ CursorIdle

ToolIdle == SqlIdle /\ ReportIdle /\ FetchIdle /\ DriverIdle

\* ------------------------------------------------------------- merge actions
MergeInit ==
  /\ rankings = EmptyMap
  /\ first_seen = EmptyMap
  /\ log = <<>>
  /\ ChunkIdle
  /\ CalcIdle
  /\ TrackIdle
  /\ ToolIdle

\* one call of process_csv_data on the in-memory store, for any date
MergeSnapshot ==
  /\ Len(log) < MaxMerges
  /\ \E date \in Dates, rows \in Snapshots :
       LET r == ProcessCsvData(rows, date, rankings, first_seen)
       IN /\ rankings' = r.rankings
          /\ first_seen' = r.first_seen
          /\ log' = Append(log, [by |-> "chunked", date |-> date, rows |-> rows])
  /\ UNCHANGED <<chunkVars, nonImportVars>>

SpecMerge == MergeInit /\ [][MergeSnapshot]_vars

\* ------------------------------------------------------------- raw CSV files
MaxCsvRows == 2
MaxRemerges == 1

CsvDomains == {"a.com", "b.com"}

(***************************************************************************)
(* Rows of files as they may arrive: a header line, a rank that is not a   *)
(* number, a line with one field, a blank line, a line with three fields,  *)
(* a signed rank, rank 0, a line whose domain field is empty, and ordinary *)
(* rows (in any order, a domain may repeat).                               *)
(***************************************************************************)
RawRows ==
  {[n |-> 2, cls |-> "alpha", rank |-> 0, domain |-> "domain"],
   [n |-> 2, cls |-> "other", rank |-> 0, domain |-> "a.com"],
   [n |-> 1, cls |-> "digits", rank |-> 1, domain |-> ""],
   [n |-> 0, cls |-> "other", rank |-> 0, domain |-> ""],
   [n |-> 3, cls |-> "digits", rank |-> 2, domain |-> "b.com"],
   [n |-> 2, cls |-> "signed", rank |-> -1, domain |-> "a.com"],
   [n |-> 2, cls |-> "digits", rank |-> 0, domain |-> "a.com"],
   [n |-> 2, cls |-> "digits", rank |-> 1, domain |-> ""]}
  \cup {[n |-> 2, cls |-> "digits", rank |-> r, domain |-> d] : r \in {1, 2}, d \in CsvDomains}

RawFiles == UNION {[1..n -> RawRows] : n \in 0..MaxCsvRows}

\* the stores one merged ranking list of CsvDomains leaves, and the empty store
PriorStores ==
  {[rankings |-> EmptyMap, first_seen |-> EmptyMap]} \cup
  {LET r == ProcessCsvData(s, t, EmptyMap, EmptyMap)
   IN [rankings |-> r.rankings, first_seen |-> r.first_seen] :
     s \in {x \in Snapshots : DomainsOf(x) \subseteq CsvDomains}, t \in Dates}

CsvInit ==
  /\ \E st \in PriorStores : rankings = st.rankings /\ first_seen = st.first_seen
  /\ log = <<>>
  /\ ChunkIdle
  /\ CalcIdle
  /\ TrackIdle
  /\ ToolIdle

\* process_csv_data (import_historical_data_chunked.py) on a file as it arrives
MergeCsv ==
  /\ log = <<>>
  /\ \E date \in Dates, rows \in RawFiles :
       LET r == ProcessCsvData(rows, date, rankings, first_seen)
       IN /\ rankings' = r.rankings
          /\ first_seen' = r.first_seen
          /\ log' = Append(log, [by |-> "chunked", date |-> date, rows |-> rows])
  /\ UNCHANGED <<chunkVars, nonImportVars>>

\* process_csv_data (import_historical_data.py) on a file as it arrives
MergeCsvLegacy ==
  /\ log = <<>>
  /\ \E date \in Dates, rows \in RawFiles :
       LET r == ProcessCsvDataLegacy(rows, date, rankings, first_seen)
       IN /\ rankings' = r.rankings
          /\ first_seen' = r.first_seen
          /\ log' = Append(log, [by |-> "legacy", date |-> date, rows |-> rows])
  /\ UNCHANGED <<chunkVars, nonImportVars>>

\* the same file for the same date merged again by the same script (a rerun)
RemergeCsv ==
  /\ Len(log) \in 1..MaxRemerges
  /\ LET e == log[Len(log)]
         r == Merge(e.by, e.rows, e.date, rankings, first_seen)
     IN /\ rankings' = r.rankings
        /\ first_seen' = r.first_seen
        /\ log' = Append(log, e)
  /\ UNCHANGED <<chunkVars, nonImportVars>>

SpecCsv == CsvInit /\ [][MergeCsv \/ MergeCsvLegacy \/ RemergeCsv]_vars

\* ------------------------------------------------------------- merge history
\* the store that merging the entries of a log, in order, into st gives
RECURSIVE ReplayFrom(_, _, _)
ReplayFrom(entries, k, st) ==
  IF k > Len(entries) THEN st
  ELSE LET e == entries[k]
           r == Merge(e.by, e.rows, e.date, st.rankings, st.first_seen)
       IN ReplayFrom(entries, k + 1, [rankings |-> r.rankings, first_seen |-> r.first_seen])

EmptyStore == [rankings |-> EmptyMap, first_seen |-> EmptyMap]
Store == [rankings |-> rankings, first_seen |-> first_seen]

MergedDates == {log[i].date : i \in 1..Len(log)}

\* the dates of the merged snapshots that hold domain d
DatesHolding(d) == {log[i].date : i \in {j \in 1..Len(log) : d \in DomainsOf(log[j].rows)}}

\* ------------------------------------------------------------- claims on the merge
\* C1: merging the same (date, snapshot) again, once or twice more, leaves
\* rankings and first_seen exactly as the first merge left them.
C1_Idempotent ==
  log # <<>> =>
    LET e == log[Len(log)]
        once == Merge(e.by, e.rows, e.date, rankings, first_seen)
        twice == Merge(e.by, e.rows, e.date, once.rankings, once.first_seen)
    IN /\ once.rankings = rankings /\ once.first_seen = first_seen
       /\ twice.rankings = rankings /\ twice.first_seen = first_seen

\* a file that repeats a domain with two ranks, merged twice in a row into a
\* store that knew another domain
C1_Witness ==
  /\ Len(log) = 2
  /\ log[1] = log[2]
  /\ \E d \in DOMAIN rankings :
       /\ d \notin DomainsOf(log[1].rows)
       /\ log[1].date \in DOMAIN rankings[d]
       /\ rankings[d][log[1].date] = 0
  /\ \E i, j \in 1..Len(log[1].rows) :
       /\ i # j
       /\ log[1].rows[i].domain = log[1].rows[j].domain
       /\ log[1].rows[i].rank # log[1].rows[j].rank
  /\ \E d \in DOMAIN rankings : log[1].date \in DOMAIN rankings[d] /\ rankings[d][log[1].date] > 0

\* C2: merging two snapshots of different dates in either order gives the
\* same rank history and the same first_seen.
C2_OrderIndependent ==
  (Len(log) >= 2 /\ log[Len(log) - 1].date # log[Len(log)].date) =>
    LET n == Len(log)
        before == ReplayFrom(SubSeq(log, 1, n - 2), 1, EmptyStore)
    IN ReplayFrom(<<log[n], log[n - 1]>>, 1, before) = Store

\* C3: every domain has a cell for every merged date on or after its first_seen.
C3_ClosedWorld ==
  \A d \in DOMAIN rankings : \A t \in MergedDates :
    t >= first_seen[d] => t \in DOMAIN rankings[d]

\* C4: two ranking lists merged in ascending date order into the empty store:
\* a domain only in the first has its rank and then 0, a domain in both has both
\* ranks, a domain only in the second has the second cell alone and first_seen
\* the second date; and the spec's scenario gives exactly its stated result.
C4_TwoDayScenario ==
  (Len(log) = 2 /\ log[1].date < log[2].date) =>
    LET d1 == log[1].date
        d2 == log[2].date
        in1 == DomainsOf(log[1].rows)
        in2 == DomainsOf(log[2].rows)
    IN /\ DOMAIN rankings = in1 \cup in2
       /\ DOMAIN first_seen = in1 \cup in2
       /\ \A d \in in1 \ in2 :
            /\ rankings[d] = (d1 :> RankIn(log[1].rows, d)) @@ (d2 :> 0)
            /\ first_seen[d] = d1
       /\ \A d \in in1 \cap in2 :
            /\ rankings[d] = (d1 :> RankIn(log[1].rows, d)) @@ (d2 :> RankIn(log[2].rows, d))
            /\ first_seen[d] = d1
       /\ \A d \in in2 \ in1 :
            /\ rankings[d] = (d2 :> RankIn(log[2].rows, d))
            /\ first_seen[d] = d2

\* 2024-06-07 = [(1, a.com), (2, b.com)] then 2024-06-08 = [(1, b.com), (3, c.com)]
C4_Witness ==
  /\ log = <<[by |-> "chunked", date |-> 1, rows |-> <<Row(1, "a.com"), Row(2, "b.com")>>],
             [by |-> "chunked", date |-> 2, rows |-> <<Row(1, "b.com"), Row(3, "c.com")>>]>>
  /\ rankings = [d \in Domains |->
                   CASE d = "a.com" -> (1 :> 1) @@ (2 :> 0)
                     [] d = "b.com" -> (1 :> 2) @@ (2 :> 1)
                     [] OTHER -> (2 :> 3)]
  /\ first_seen = [d \in Domains |-> IF d = "c.com" THEN 2 ELSE 1]

\* C8: first_seen of every domain is the smallest date among the merged
\* snapshots that held the domain, whatever the order of the merges.
C8_FirstSeenIsMin ==
  /\ DOMAIN first_seen = {d \in Domains : DatesHolding(d) # {}}
  /\ \A d \in DOMAIN first_seen : first_seen[d] = Min(DatesHolding(d))

\* a later date merged first, then an earlier date holding the same domain
C8_Witness ==
  /\ Len(log) = 2
  /\ log[1].date > log[2].date
  /\ \E d \in DomainsOf(log[1].rows) \cap DomainsOf(log[2].rows) : first_seen[d] = log[2].date

\* C9: no domain has a cell for a date before its first_seen.
C9_NoCellBeforeFirstSeen ==
  \A d \in DOMAIN rankings : \A t \in DOMAIN rankings[d] : t >= first_seen[d]


\* ------------------------------------------------------------- chunked import
MaxChunkId == 1
MaxRuns == 2
CheckpointEvery == 10

ChunkIds == 0..MaxChunkId

\* main(): the commits of a chunk are (date, date) pairs in date order
commit_chunk == [k \in 1..MaxDate |-> k]

\* what historical_extracts/<date> can hold: no directory, a directory with
\* neither file, a tranco.zip that cannot be opened, a good tranco.zip, or a
\* bare top-1m.csv
ExtractRows == {<<Row(1, "a.com"), Row(2, "b.com")>>, <<Row(1, "b.com")>>}
Extracts ==
  {[kind |-> k, rows |-> <<>>] : k \in {"nodir", "nofile", "badzip"}}
    \cup {[kind |-> k, rows |-> r] : k \in {"zip", "csv"}, r \in ExtractRows}

\* save_domains_history: the first-seen table and the rankings table, the
\* latter with one column per date any domain has a cell for, 0 where a domain
\* has none
AllDates(rk) == UNION {DOMAIN rk[d] : d \in DOMAIN rk}

\* the rankings frame with the missing cells left out instead of written as 0
RankingsTableSparse(rk) == rk

RankingsTable(rk) ==
  [d \in DOMAIN rk |->
     [t \in AllDates(rk) |-> IF t \in DOMAIN rk[d] THEN rk[d][t] ELSE 0]]

\* load_domains_history: cells that are 0 are not loaded
LoadRankings(file) ==
  IF file.exists
    THEN [d \in DOMAIN file.data |->
            [t \in {u \in DOMAIN file.data[d] : file.data[d][u] # 0} |->
               file.data[d][t]]]
    ELSE EmptyMap
LoadFirstSeen(file) == IF file.exists THEN file.data ELSE EmptyMap

\* a store an earlier import left in the main files
EarlierStore == ProcessCsvData(<<Row(1, "c.com")>>, 1, EmptyMap, EmptyMap)
MainChoices ==
  {NoStoreFiles,
   [fs |-> [exists |-> TRUE, data |-> EarlierStore.first_seen],
    rk |-> [exists |-> TRUE, data |-> RankingsTable(EarlierStore.rankings)]]}

\* the files save_domains_history(.., chunk_id) writes to
TargetFiles ==
  IF chunk_id > 0
    THEN IF chunk_id \in DOMAIN chunkFiles THEN chunkFiles[chunk_id]
                                           ELSE NoStoreFiles
    ELSE mainFiles

ChunkInit ==
  /\ rankings = EmptyMap
  /\ first_seen = EmptyMap
  /\ log = <<>>
  /\ extracts \in [Dates -> Extracts]
  /\ chunk_id \in ChunkIds
  /\ ckptFile = NoCheckpointFile
  /\ mainFiles \in MainChoices
  /\ main0 = mainFiles
  /\ chunkFiles = EmptyMap
  /\ pc = "idle"
  /\ checkpoint = DefaultCheckpoint
  /\ processed_commits = {}
  /\ idx = 0
  /\ total_processed = 0
  /\ total_domains_updated = 0
  /\ runs = 0
  /\ killedAfterRecord = FALSE
  /\ CalcIdle
  /\ TrackIdle
  /\ ToolIdle

\* line 193: the checkpoint names this chunk or a later one as processed
\* (None and 0 are both false there)
ChunkAlreadyProcessed(ck, id) ==
  ck.last_processed_chunk > 0 /\ ck.last_processed_chunk >= id

\* process_commit_chunk up to the loop: load the checkpoint, return at once
\* if the checkpoint names this chunk or a later one, else load the store
StartChunk ==
  /\ pc \in {"idle", "done"}
  /\ runs < MaxRuns
  /\ runs' = runs + 1
  /\ LET ck == LoadCheckpoint(ckptFile)
     IN /\ checkpoint' = ck
        /\ processed_commits' = ck.processed_commits
        /\ IF ChunkAlreadyProcessed(ck, chunk_id)
             THEN /\ pc' = "done"
                  /\ rankings' = EmptyMap
                  /\ first_seen' = EmptyMap
             ELSE /\ pc' = "loop"
                  /\ rankings' = LoadRankings(mainFiles.rk)
                  /\ first_seen' = LoadFirstSeen(mainFiles.fs)
  /\ idx' = 1
  /\ total_processed' = 0
  /\ total_domains_updated' = 0
  /\ UNCHANGED <<log, extracts, chunk_id, ckptFile, mainFiles, chunkFiles,
                 killedAfterRecord, main0>>
  /\ UNCHANGED nonImportVars

\* the files after save_domains_history wrote one of them
WriteTarget(part, data) ==
  LET new == [TargetFiles EXCEPT ![part] = [exists |-> TRUE, data |-> data]]
  IN IF chunk_id > 0
       THEN /\ chunkFiles' = Put(chunkFiles, chunk_id, new)
            /\ UNCHANGED mainFiles
       ELSE /\ mainFiles' = new
            /\ UNCHANGED chunkFiles

\* one iteration of the loop over the commits of the chunk
ProcessCommit ==
  /\ pc = "loop"
  /\ idx <= Len(commit_chunk)
  /\ LET commit_date == commit_chunk[idx]
         commit_hash == commit_chunk[idx]
         x == extracts[commit_date]
         last == idx = Len(commit_chunk)
     IN /\ idx' = idx + 1
        /\ pc' = IF last THEN "save_first_seen" ELSE "loop"
        /\ IF commit_hash \in processed_commits \/ x.kind \notin {"zip", "csv"}
             THEN UNCHANGED <<rankings, first_seen, processed_commits,
                              total_processed, total_domains_updated,
                              checkpoint, ckptFile>>
             ELSE LET r == ProcessCsvData(x.rows, commit_date, rankings, first_seen)
                      tp == total_processed + 1
                      tdu == total_domains_updated + r.updated
                      ck == [checkpoint EXCEPT
                               !.processed_commits = processed_commits \cup {commit_hash},
                               !.last_processed_date = commit_date,
                               !.total_domains_updated = @ + tdu]
                  IN /\ rankings' = r.rankings
                     /\ first_seen' = r.first_seen
                     /\ processed_commits' = processed_commits \cup {commit_hash}
                     /\ total_processed' = tp
                     /\ total_domains_updated' = tdu
                     /\ IF tp % CheckpointEvery = 0 \/ last
                          THEN /\ checkpoint' = ck
                               /\ ckptFile' = CheckpointFileOf(ck)
                          ELSE UNCHANGED <<checkpoint, ckptFile>>
  /\ UNCHANGED <<log, extracts, chunk_id, mainFiles, chunkFiles, runs,
                 killedAfterRecord, main0>>
  /\ UNCHANGED nonImportVars

\* save_domains_history, first file
SaveFirstSeen ==
  /\ pc = "save_first_seen"
  /\ WriteTarget("fs", first_seen)
  /\ pc' = "save_rankings"
  /\ UNCHANGED <<mergeVars, extracts, chunk_id, ckptFile, checkpoint,
                 processed_commits, idx, total_processed, total_domains_updated,
                 runs, killedAfterRecord, main0>>
  /\ UNCHANGED nonImportVars

\* save_domains_history, second file
SaveRankings ==
  /\ pc = "save_rankings"
  /\ WriteTarget("rk", RankingsTable(rankings))
  /\ pc' = "mark_chunk"
  /\ UNCHANGED <<mergeVars, extracts, chunk_id, ckptFile, checkpoint,
                 processed_commits, idx, total_processed, total_domains_updated,
                 runs, killedAfterRecord, main0>>
  /\ UNCHANGED nonImportVars

\* the chunk id is written to the checkpoint and the function returns
MarkChunk ==
  /\ pc = "mark_chunk"
  /\ LET ck == [checkpoint EXCEPT
                  !.last_processed_chunk = chunk_id,
                  !.total_domains_updated = @ + total_domains_updated]
     IN /\ checkpoint' = ck
        /\ ckptFile' = CheckpointFileOf(ck)
  /\ pc' = "done"
  /\ UNCHANGED <<mergeVars, extracts, chunk_id, mainFiles, chunkFiles,
                 processed_commits, idx, total_processed, total_domains_updated,
                 runs, killedAfterRecord, main0>>
  /\ UNCHANGED nonImportVars

\* import_checkpoint.json is damaged while the importer is not running (a
\* write cut short, a bad disk): it is there but json.load fails on it
DamageCheckpoint ==
  /\ pc \in {"idle", "done"}
  /\ ckptFile.exists
  /\ ckptFile.readable
  /\ ckptFile' = [ckptFile EXCEPT !.readable = FALSE]
  /\ UNCHANGED <<mergeVars, extracts, chunk_id, mainFiles, chunkFiles, pc,
                 checkpoint, processed_commits, idx, total_processed,
                 total_domains_updated, runs, killedAfterRecord, main0>>
  /\ UNCHANGED nonImportVars

\* the process is killed between two steps: what it held in memory is lost,
\* the files stay as they are
Kill ==
  /\ pc \in {"loop", "save_first_seen", "save_rankings", "mark_chunk"}
  /\ pc' = "idle"
  /\ rankings' = EmptyMap
  /\ first_seen' = EmptyMap
  /\ checkpoint' = DefaultCheckpoint
  /\ processed_commits' = {}
  /\ idx' = 0
  /\ total_processed' = 0
  /\ total_domains_updated' = 0
  /\ killedAfterRecord' =
       (killedAfterRecord
          \/ (ckptFile.exists /\ ckptFile.data.processed_commits # {}))
  /\ UNCHANGED <<log, extracts, chunk_id, ckptFile, mainFiles, chunkFiles,
                 runs, main0>>
  /\ UNCHANGED nonImportVars

ChunkNext ==
  \/ StartChunk
  \/ ProcessCommit
  \/ SaveFirstSeen
  \/ SaveRankings
  \/ MarkChunk
  \/ Kill
  \/ DamageCheckpoint

SpecChunk == ChunkInit /\ [][ChunkNext]_vars

\* ------------------------------------------------------------- chunk claims
\* the store a run that is never interrupted builds from the main files and
\* the commits k.. of the chunk
RECURSIVE RunCommits(_, _)
RunCommits(k, st) ==
  IF k > Len(commit_chunk) THEN st
  ELSE LET x == extracts[commit_chunk[k]]
       IN IF x.kind \in {"zip", "csv"}
            THEN LET r == ProcessCsvData(x.rows, commit_chunk[k],
                                         st.rankings, st.first_seen)
                 IN RunCommits(k + 1, [rankings |-> r.rankings,
                                       first_seen |-> r.first_seen])
            ELSE RunCommits(k + 1, st)

UninterruptedStore ==
  RunCommits(1, [rankings |-> LoadRankings(main0.rk),
                 first_seen |-> LoadFirstSeen(main0.fs)])

UninterruptedFiles ==
  [fs |-> [exists |-> TRUE, data |-> UninterruptedStore.first_seen],
   rk |-> [exists |-> TRUE, data |-> RankingsTable(UninterruptedStore.rankings)]]

\* every store on disk
DiskStores == {mainFiles} \cup {chunkFiles[c] : c \in DOMAIN chunkFiles}

\* the rankings table of these files has the ranks of the snapshot of a date
HoldsSnapshot(files, date) ==
  /\ files.rk.exists
  /\ LET snap == ProcessCsvData(extracts[date].rows, date, EmptyMap, EmptyMap).rankings
     IN \A d \in DOMAIN snap :
          /\ d \in DOMAIN files.rk.data
          /\ date \in DOMAIN files.rk.data[d]
          /\ files.rk.data[d][date] = snap[d][date]

\* C5: when process_commit_chunk was killed after the checkpoint file had
\* recorded some snapshot and a restarted run of the same chunk has returned,
\* the store files of the chunk are those a never interrupted run saves.
C5_RestartSameStore ==
  (pc = "done" /\ killedAfterRecord) => TargetFiles = UninterruptedFiles

\* C10: at every moment every snapshot id listed in the checkpoint file has
\* its ranks in a store file on disk.
C10_RecordedImpliesStored ==
  ckptFile.exists =>
    \A id \in ckptFile.data.processed_commits :
      \E files \in DiskStores : HoldsSnapshot(files, id)

\* ------------------------------------------------------------- rank change analyzer
NewEntrant == 1000000
DroppedOut == -1000000

Max(S) == CHOOSE x \in S : \A y \in S : y <= x

\* n / d to the nearest integer, d > 0
RoundDiv(n, d) == (2 * n + d) \div (2 * d)

\* calculate_change with the subtraction the other way round
CalculateChangeReversed(start, end) ==
  IF start = 0 /\ end > 0 THEN NewEntrant
  ELSE IF start > 0 /\ end = 0 THEN DroppedOut
  ELSE IF start = 0 /\ end = 0 THEN 0
  ELSE end - start

\* calculate_change of a row with these start_rank and end_rank
CalculateChange(start, end) ==
  IF start = 0 /\ end > 0 THEN NewEntrant
  ELSE IF start > 0 /\ end = 0 THEN DroppedOut
  ELSE IF start = 0 /\ end = 0 THEN 0
  ELSE start - end

\* one of the fixed strings calculate_percent returns
Label(kind) == [kind |-> kind, negative |-> FALSE, whole |-> 0, hundredths |-> 0]

\* f"{(start - end) / start * 100:.2f}%": sign, whole percents and the two
\* decimals, by long division so that no intermediate value leaves 32 bits
PercentText(start, end) ==
  LET diff == start - end
      a == IF diff < 0 THEN -diff ELSE diff
      r == a % start
      w == (a \div start) * 100 + (r * 100) \div start
      f == RoundDiv(((r * 100) % start) * 100, start)
  IN [kind |-> "percent", negative |-> diff < 0,
      whole |-> IF f = 100 THEN w + 1 ELSE w,
      hundredths |-> IF f = 100 THEN 0 ELSE f]

\* calculate_percent with the new-entrant test one off the sentinel
CalculatePercentOffByOne(start, end, change) ==
  IF change = NewEntrant - 1 THEN Label("new")
  ELSE IF change = DroppedOut THEN Label("dropped")
  ELSE IF start = 0 \/ end = 0 THEN Label("zero")
  ELSE PercentText(start, end)

\* calculate_percent: one of the two labels, "0%", or the percentage
CalculatePercent(start, end, change) ==
  IF change = NewEntrant THEN Label("new")
  ELSE IF change = DroppedOut THEN Label("dropped")
  ELSE IF start = 0 \/ end = 0 THEN Label("zero")
  ELSE PercentText(start, end)

\* the fallback taking the earliest available column instead of the latest
ResolveDateEarliest(cols, date) ==
  IF date \in cols THEN {date}
  ELSE LET available == {c \in cols : c <= date}
       IN IF available = {} THEN {} ELSE {Min(available)}

\* the column used for a requested date: the date itself if it is a column,
\* else the latest column not after it, if any
ResolveDate(cols, date) ==
  IF date \in cols THEN {date}
  ELSE LET available == {c \in cols : c <= date}
       IN IF available = {} THEN {} ELSE {Max(available)}

CalculateRankChanges(table, start_date, end_date) ==
  LET s == ResolveDate(table.cols, start_date)
      e == ResolveDate(table.cols, end_date)
  IN IF s = {} \/ e = {} THEN [kind |-> "None"]
     ELSE LET sd == CHOOSE x \in s : TRUE
              ed == CHOOSE x \in e : TRUE
          IN [kind |-> "frame", start_date |-> sd, end_date |-> ed,
              rows |-> [d \in DOMAIN table.rows |->
                 LET start == table.rows[d][sd]
                     end == table.rows[d][ed]
                     change == CalculateChange(start, end)
                 IN [start_rank |-> start, end_rank |-> end,
                     rank_change |-> change,
                     change_percent |-> CalculatePercent(start, end, change)]]]

\* the result built in the input frame itself: its end column is overwritten
InputAfterCallAliased(table, start_date, end_date) ==
  LET e == ResolveDate(table.cols, end_date)
  IN [table EXCEPT !.rows =
        [d \in DOMAIN table.rows |->
           [c \in DOMAIN table.rows[d] |->
              IF c \in e THEN 0 ELSE table.rows[d][c]]]]

\* the input frame after the call: the result is built in a DataFrame of its
\* own (lines 127-132), columns are only read from df
InputAfterCall(table, start_date, end_date) == table

\* the tables the analyzer is run on: two date columns, 0 for an absent domain
AnalyzerDomains == {"a.com", "b.com"}
AnalyzerColumns == {2, 4}
AnalyzerRanks == {0, 1, 5, 10, 500, 1000000}
RequestDates == 1..5

MergeIdle ==
  /\ rankings = EmptyMap
  /\ first_seen = EmptyMap
  /\ log = <<>>

CalcInit ==
  /\ \E rows \in [AnalyzerDomains -> [AnalyzerColumns -> AnalyzerRanks]] :
       df = [cols |-> AnalyzerColumns, rows |-> rows]
  /\ request = <<>>
  /\ result = [kind |-> "unset"]
  /\ MergeIdle
  /\ ChunkIdle
  /\ TrackIdle
  /\ ToolIdle

\* a call of calculate_rank_changes(df, start_date, end_date)
Analyze ==
  /\ \E start_date \in RequestDates, end_date \in RequestDates :
       /\ request' = <<start_date, end_date>>
       /\ result' = CalculateRankChanges(df, start_date, end_date)
       /\ df' = InputAfterCall(df, start_date, end_date)
  /\ UNCHANGED <<mergeVars, chunkVars, trackVars, toolVars>>

SpecCalc == CalcInit /\ [][Analyze]_vars

\* C7: every row of a result of calculate_rank_changes is classified by its
\* start and end rank: 0 then positive is +1000000 (new entrant), positive
\* then 0 is -1000000 (dropped out), 0 and 0 is 0, two positive ranks give
\* start - end (a rise is positive).
C7_Classification ==
  result.kind = "frame" =>
    \A d \in DOMAIN result.rows :
      LET r == result.rows[d]
          start == df.rows[d][result.start_date]
          end == df.rows[d][result.end_date]
      IN /\ r.start_rank = start
         /\ r.end_rank = end
         /\ (start = 0 /\ end > 0) => r.rank_change = 1000000
         /\ (start > 0 /\ end = 0) => r.rank_change = -1000000
         /\ (start = 0 /\ end = 0) => r.rank_change = 0
         /\ (start > 0 /\ end > 0) => r.rank_change = start - end

\* a result holding the four cases: 10 -> 5 is +5, 0 -> 500 a new entrant
C7_Witness ==
  /\ result.kind = "frame"
  /\ request = <<2, 4>>
  /\ result.rows["a.com"].start_rank = 10
  /\ result.rows["a.com"].end_rank = 5
  /\ result.rows["a.com"].rank_change = 5
  /\ result.rows["b.com"].start_rank = 0
  /\ result.rows["b.com"].end_rank = 500
  /\ result.rows["b.com"].rank_change = 1000000

\* ------------------------------------------------------------- daily tracker
MaxDay == 2
MaxTrackRuns == 3

HeaderRow == [n |-> 2, cls |-> "alpha", rank |-> 0, domain |-> "domain"]

\* the downloads: top-1m.csv inside the zip, or a zip that cannot be read
TrackFiles ==
  {<<>>,
   <<HeaderRow>>,
   <<HeaderRow, Row(1, "a.com"), Row(2, "b.com")>>,
   <<HeaderRow, Row(1, "b.com"), Row(2, "c.com")>>,
   <<HeaderRow, Row(1, "c.com"), Row(2, "a.com"), Row(3, "c.com")>>,
   <<Row(1, "a.com"), Row(2, "b.com")>>,
   <<HeaderRow, [n |-> 3, cls |-> "digits", rank |-> 1, domain |-> "a.com"],
     [n |-> 2, cls |-> "other", rank |-> 0, domain |-> "b.com"],
     Row(3, "c.com")>>}
Downloads ==
  {[kind |-> "zip", rows |-> f] : f \in TrackFiles}
    \cup {[kind |-> "badzip", rows |-> <<>>], NoZip}

\* load_domains_history (your_script_name.py): rows of the rankings file
\* with no date cell at all are not loaded
TrackLoadFirstSeen(file) == IF file.exists THEN file.data ELSE EmptyMap
TrackLoadRankings(file) ==
  IF file.exists
    THEN [d \in {x \in DOMAIN file.data : DOMAIN file.data[x] # {}} |-> file.data[d]]
    ELSE EmptyMap

\* line 284 with a domain first seen today counted as new again
IsNewDomainOrToday(fs, domain, date) ==
  domain \notin DOMAIN fs \/ fs[domain] = date

\* line 284: the domain has no first-seen date yet
IsNewDomain(fs, domain, date) == domain \notin DOMAIN fs

\* line 288 without the first-run test
ReportsNewAlways(new, is_first_run) == new

\* line 288: a new domain goes to new_domains unless this is the first run
ReportsNew(new, is_first_run) == new /\ ~is_first_run

\* lines 271-294 for one row; st holds the two dicts, current_domains,
\* domains_to_insert (as a map) and new_domains
TrackRow(st, row, date, is_first_run) ==
  IF row.n = 2 /\ IntParses(row)
    THEN LET new == IsNewDomain(st.first_seen, row.domain, date)
         IN [rankings |-> SetRank(st.rankings, row.domain, date, row.rank),
             first_seen |-> IF new THEN Put(st.first_seen, row.domain, date)
                                   ELSE st.first_seen,
             current_domains |-> st.current_domains \cup {row.domain},
             domains_to_insert |-> IF new THEN Put(st.domains_to_insert, row.domain, date)
                                          ELSE st.domains_to_insert,
             new_domains |-> IF ReportsNew(new, is_first_run)
                               THEN Append(st.new_domains, row.domain)
                               ELSE st.new_domains]
    ELSE st

RECURSIVE TrackRows(_, _, _, _, _)
TrackRows(data, k, st, date, is_first_run) ==
  IF k > Len(data) THEN st
  ELSE TrackRows(data, k + 1, TrackRow(st, data[k], date, is_first_run),
                 date, is_first_run)

\* lines 297-299: every known domain missing from the file gets 0 for the date
TrackZeroFill(rk, current_domains, date) ==
  [d \in DOMAIN rk |->
     IF d \notin current_domains THEN Put(rk[d], date, 0) ELSE rk[d]]

\* INSERT OR IGNORE INTO domains
InsertOrIgnore(table, rows) ==
  [d \in DOMAIN table \cup DOMAIN rows |->
     IF d \in DOMAIN table THEN table[d] ELSE rows[d]]

\* INSERT INTO rankings_<year> .. ON CONFLICT(domain) DO UPDATE, for the
\* domains of the file
UpsertRankings(table, rk, current_domains, date) ==
  [d \in DOMAIN table \cup current_domains |->
     IF d \in current_domains
       THEN Put(IF d \in DOMAIN table THEN table[d] ELSE EmptyMap, date, rk[d][date])
       ELSE table[d]]

TrackInit ==
  /\ hist = NoStoreFiles
  /\ db = NoDb
  /\ zip_file \in Downloads
  /\ today = 1
  /\ process_history = {}
  /\ runlog = <<>>
  /\ MergeIdle
  /\ ChunkIdle
  /\ CalcIdle
  /\ ToolIdle

\* create_database: CREATE TABLE IF NOT EXISTS domains
CreateDatabase ==
  /\ ~db.domains_table
  /\ db' = [db EXCEPT !.file = TRUE, !.domains_table = TRUE]
  /\ UNCHANGED <<hist, zip_file, today, process_history, runlog>>
  /\ UNCHANGED <<mergeVars, chunkVars, calcVars, toolVars>>

\* cleanup_database: the database file is removed
CleanupDatabase ==
  /\ db.file
  /\ db' = NoDb
  /\ UNCHANGED <<hist, zip_file, today, process_history, runlog>>
  /\ UNCHANGED <<mergeVars, chunkVars, calcVars, toolVars>>

\* the next day's download
NextDay ==
  /\ today < MaxDay
  /\ today' = today + 1
  /\ zip_file' \in Downloads
  /\ UNCHANGED <<hist, db, process_history, runlog>>
  /\ UNCHANGED <<mergeVars, chunkVars, calcVars, toolVars>>

\* update_database(zip_file); its return value goes to runlog
UpdateDatabase ==
  /\ Len(runlog) < MaxTrackRuns
  /\ LET domains_rankings == TrackLoadRankings(hist.rk)
         domains_first_seen == TrackLoadFirstSeen(hist.fs)
         is_first_run == domains_first_seen = EmptyMap
         data == IF zip_file.rows = <<>> THEN <<>> ELSE Tail(zip_file.rows)
         st == TrackRows(data, 1,
                         [rankings |-> domains_rankings,
                          first_seen |-> domains_first_seen,
                          current_domains |-> {},
                          domains_to_insert |-> EmptyMap,
                          new_domains |-> <<>>],
                         today, is_first_run)
         rk == TrackZeroFill(st.rankings, st.current_domains, today)
         \* the domains table is missing when a statement needs it
         import_fails == domains_first_seen # EmptyMap /\ ~db.domains_table
         insert_fails == st.domains_to_insert # EmptyMap /\ ~db.domains_table
         returned == IF zip_file.kind # "zip" \/ import_fails THEN <<>>
                                                               ELSE st.new_domains
         \* the first-seen file as the call leaves it
         saved == IF zip_file.kind = "zip" /\ ~import_fails /\ ~insert_fails
                    THEN st.first_seen ELSE domains_first_seen
     IN /\ runlog' = Append(runlog,
             [date |-> today, zip |-> zip_file, new_domains |-> returned,
              first_run |-> is_first_run,
              recorded |-> DOMAIN saved \ DOMAIN domains_first_seen,
              seen_today |-> {d \in DOMAIN saved : saved[d] = today}])
        /\ IF zip_file.kind # "zip"
             THEN UNCHANGED <<hist, db, process_history>>
             ELSE IF import_fails \/ insert_fails
               THEN /\ db' = [db EXCEPT !.file = TRUE]
                    /\ UNCHANGED <<hist, process_history>>
               ELSE /\ db' = [file |-> TRUE,
                              domains_table |-> db.domains_table,
                              domains |-> InsertOrIgnore(
                                 InsertOrIgnore(db.domains, domains_first_seen),
                                 st.domains_to_insert),
                              rankings |-> UpsertRankings(db.rankings, rk,
                                                          st.current_domains, today)]
                    /\ hist' = [fs |-> [exists |-> TRUE, data |-> st.first_seen],
                                rk |-> [exists |-> TRUE, data |-> RankingsTable(rk)]]
                    /\ process_history' = process_history \cup {today}
  /\ UNCHANGED <<zip_file, today>>
  /\ UNCHANGED <<mergeVars, chunkVars, calcVars, toolVars>>

TrackNext ==
  \/ CreateDatabase
  \/ CleanupDatabase
  \/ NextDay
  \/ UpdateDatabase

SpecTrack == TrackInit /\ [][TrackNext]_vars

FetchFails(date) == extracts[date].kind \notin {"zip", "csv"}

\* C11: a snapshot whose fetch failed is not listed in the checkpoint file's
\* processed_commits, and the checkpoint file does not make a rerun of its
\* chunk return at once as already processed, so that the rerun takes the
\* snapshot up again.
C11_FailedStaysPending ==
  \A date \in DOMAIN extracts :
    FetchFails(date) =>
      /\ date \notin ckptFile.data.processed_commits
      /\ ~ChunkAlreadyProcessed(ckptFile.data, chunk_id)

\* ------------------------------------------------------------- rank values
\* the domains a merge of this log entry takes a rank for from a row
DomainsTaken(e) == DOMAIN Merge(e.by, e.rows, e.date, EmptyMap, EmptyMap).rankings

\* C12: no cell is negative, and a cell whose value was taken from a row of a
\* merged snapshot holds a positive rank: 0 is only ever the mark of absence.
C12_RanksPositive ==
  \A d \in DOMAIN rankings :
    \A t \in DOMAIN rankings[d] :
      /\ rankings[d][t] >= 0
      /\ \A i \in 1..Len(log) :
           (log[i].date = t /\ d \in DomainsTaken(log[i])) => rankings[d][t] > 0

\* ------------------------------------------------------------- crash during a save
\* the two files of a store list the same domains (a file that is absent
\* lists none)
SameDomains(files) == DOMAIN files.fs.data = DOMAIN files.rk.data

\* C13: after a kill of the importer, whenever it came, the first-seen file
\* and the rankings file of every store on disk are of one version: they
\* describe the same set of domains.
C13_SaveIsAtomic ==
  (pc = "idle" /\ runs > 0) => \A files \in DiskStores : SameDomains(files)

\* ------------------------------------------------------------- analyzer dates
\* the latest column of the table not after the date, if there is one
LatestNotAfter(date) ==
  {c \in df.cols : c <= date /\ \A c2 \in df.cols : c2 <= date => c2 <= c}

\* C14: the column calculate_rank_changes uses for a requested date is the
\* greatest date column not after it (the date itself when it is a column);
\* when either requested date has no column at or before it, the result is
\* None.
C14_DateFallback ==
  request # <<>> =>
    IF LatestNotAfter(request[1]) = {} \/ LatestNotAfter(request[2]) = {}
      THEN result.kind = "None"
      ELSE /\ result.kind = "frame"
           /\ result.start_date \in LatestNotAfter(request[1])
           /\ result.end_date \in LatestNotAfter(request[2])
           /\ \A d \in DOMAIN result.rows :
                /\ result.rows[d].start_rank = df.rows[d][result.start_date]
                /\ result.rows[d].end_rank = df.rows[d][result.end_date]

\* both requested dates have no column and fall back to different columns
C14_Witness ==
  /\ request = <<3, 5>>
  /\ result.kind = "frame"
  /\ result.start_date = 2
  /\ result.end_date = 4

ReduceIds == {1, 2}

\* a chunk store: what one process_csv_data merge leaves in a pair of files
ChunkStoreChoices ==
  {LET st == ProcessCsvData(snap, t, EmptyMap, EmptyMap)
   IN [fs |-> [exists |-> TRUE, data |-> st.first_seen],
       rk |-> [exists |-> TRUE, data |-> RankingsTable(st.rankings)]] :
     snap \in {x \in Snapshots : DomainsOf(x) \subseteq CsvDomains}, t \in Dates}

\* the orders os.listdir can give the files in
ReadOrders ==
  {o \in [1..Cardinality(ReduceIds) -> ReduceIds] :
     \A i, j \in DOMAIN o : i # j => o[i] # o[j]}

\* the members of a set, one after the other
RECURSIVE SeqOfSet(_)
SeqOfSet(S) ==
  IF S = {} THEN <<>>
  ELSE LET x == CHOOSE y \in S : TRUE IN <<x>> \o SeqOfSet(S \ {x})

\* pd.read_parquet: the rows of a first-seen file, of a rankings file
FirstSeenRows(file) ==
  LET ds == SeqOfSet(DOMAIN file.data)
  IN [i \in 1..Len(ds) |-> [domain |-> ds[i], first_seen |-> file.data[ds[i]]]]
RankingsRows(file) ==
  LET ds == SeqOfSet(DOMAIN file.data)
  IN [i \in 1..Len(ds) |-> [domain |-> ds[i], cells |-> file.data[ds[i]]]]

\* pd.concat(dfs, ignore_index=True) over the files in reading order; in the
\* rankings frame a row has no value (NaN) in the columns of the other files
RECURSIVE ConcatFirstSeen(_, _)
ConcatFirstSeen(order, k) ==
  IF k > Len(order) THEN <<>>
  ELSE FirstSeenRows(chunkFiles[order[k]].fs) \o ConcatFirstSeen(order, k + 1)
RECURSIVE ConcatRankings(_, _)
ConcatRankings(order, k) ==
  IF k > Len(order) THEN <<>>
  ELSE RankingsRows(chunkFiles[order[k]].rk) \o ConcatRankings(order, k + 1)

\* the sort left out
SortByFirstSeenSkipped(rows) == rows

\* sort_values('first_seen')
RECURSIVE InsertByFirstSeen(_, _)
InsertByFirstSeen(row, sorted) ==
  IF sorted = <<>> THEN <<row>>
  ELSE IF row.first_seen < Head(sorted).first_seen THEN <<row>> \o sorted
  ELSE <<Head(sorted)>> \o InsertByFirstSeen(row, Tail(sorted))
RECURSIVE SortByFirstSeen(_)
SortByFirstSeen(rows) ==
  IF rows = <<>> THEN <<>>
  ELSE InsertByFirstSeen(rows[Len(rows)], SortByFirstSeen(SubSeq(rows, 1, Len(rows) - 1)))

\* the rows at indices k.. of a frame for which keep holds
RECURSIVE RowsKept(_, _, _)
RowsKept(rows, keep, k) ==
  IF k > Len(rows) THEN <<>>
  ELSE (IF k \in keep THEN <<rows[k]>> ELSE <<>>) \o RowsKept(rows, keep, k + 1)

\* drop_duplicates(subset=['domain'], keep='last') and keep='first'
DropDuplicatesKeepLast(rows) ==
  RowsKept(rows, {i \in 1..Len(rows) :
                    \A j \in (i + 1)..Len(rows) : rows[j].domain # rows[i].domain}, 1)
DropDuplicatesKeepFirst(rows) ==
  RowsKept(rows, {i \in 1..Len(rows) :
                    \A j \in 1..(i - 1) : rows[j].domain # rows[i].domain}, 1)

\* lines 308-327: the rows written to the main first-seen file
MergedFirstSeenRows(order) ==
  DropDuplicatesKeepFirst(SortByFirstSeen(ConcatFirstSeen(order, 1)))

\* lines 288-306: the rows written to the main rankings file
MergedRankingsRows(order) == DropDuplicatesKeepLast(ConcatRankings(order, 1))

\* a frame as the content of a file: what a reader of the file gets per domain
FirstSeenOfRows(rows) ==
  [d \in {rows[i].domain : i \in 1..Len(rows)} |->
     rows[Max({i \in 1..Len(rows) : rows[i].domain = d})].first_seen]
RankingsOfRows(rows) ==
  [d \in {rows[i].domain : i \in 1..Len(rows)} |->
     rows[Max({i \in 1..Len(rows) : rows[i].domain = d})].cells]

\* every chunk has left its pair of files; nothing is merged yet
ReduceInit ==
  /\ chunkFiles \in [ReduceIds -> ChunkStoreChoices]
  /\ mainFiles = NoStoreFiles
  /\ main0 = NoStoreFiles
  /\ extracts = EmptyMap
  /\ chunk_id = 0
  /\ ckptFile = NoCheckpointFile
  /\ pc = "idle"
  /\ checkpoint = DefaultCheckpoint
  /\ processed_commits = {}
  /\ idx = 0
  /\ total_processed = 0
  /\ total_domains_updated = 0
  /\ runs = 0
  /\ killedAfterRecord = FALSE
  /\ MergeIdle
  /\ CalcIdle
  /\ TrackIdle
  /\ ToolIdle

\* merge_chunk_results: the rankings files, then the first-seen files, each
\* list in the order the directory gives it
MergeChunkResults ==
  /\ \E rk_order \in ReadOrders, fs_order \in ReadOrders :
       mainFiles' =
         [rk |-> [exists |-> TRUE,
                  data |-> RankingsOfRows(MergedRankingsRows(rk_order))],
          fs |-> [exists |-> TRUE,
                  data |-> FirstSeenOfRows(MergedFirstSeenRows(fs_order))]]
  /\ UNCHANGED <<extracts, chunk_id, ckptFile, chunkFiles, pc, checkpoint,
                 processed_commits, idx, total_processed, total_domains_updated,
                 runs, killedAfterRecord, main0>>
  /\ UNCHANGED <<mergeVars, nonImportVars>>

SpecReduce == ReduceInit /\ [][MergeChunkResults]_vars

\* the chunk files that list the domain
ChunksListing(d) == {c \in DOMAIN chunkFiles : d \in DOMAIN chunkFiles[c].fs.data}

\* C15: after merge_chunk_results every domain of a chunk first-seen file has
\* in the main first-seen file the least of its first_seen dates over the
\* chunk files, and the merged frame has one row per domain, whatever the
\* order the files are read in.
C15_MergedFirstSeenIsMin ==
  /\ mainFiles.fs.exists =>
       \A d \in Domains :
         ChunksListing(d) # {} =>
           /\ d \in DOMAIN mainFiles.fs.data
           /\ mainFiles.fs.data[d] =
                Min({chunkFiles[c].fs.data[d] : c \in ChunksListing(d)})
  /\ ReduceIds \subseteq DOMAIN chunkFiles =>
       \A o \in ReadOrders :
         LET rows == MergedFirstSeenRows(o)
         IN \A i, j \in 1..Len(rows) : i # j => rows[i].domain # rows[j].domain

\* merged: a domain is in both chunk files, the file read second in name
\* order has the earlier date, and the main file has that date
C15_Witness ==
  /\ mainFiles.fs.exists
  /\ ReduceIds \subseteq DOMAIN chunkFiles
  /\ "a.com" \in DOMAIN chunkFiles[1].fs.data
  /\ "a.com" \in DOMAIN chunkFiles[2].fs.data
  /\ chunkFiles[1].fs.data["a.com"] > chunkFiles[2].fs.data["a.com"]
  /\ "a.com" \in DOMAIN mainFiles.fs.data
  /\ mainFiles.fs.data["a.com"] = chunkFiles[2].fs.data["a.com"]

\* C16: after merge_chunk_results, for every domain and date some chunk
\* rankings file holds a rank for, the main rankings file holds for that
\* domain and date a rank of one of the chunk files, whatever the order the
\* files were read in.
C16_MergedRanksKept ==
  mainFiles.rk.exists =>
    \A c \in DOMAIN chunkFiles :
      \A d \in DOMAIN chunkFiles[c].rk.data :
        \A t \in DOMAIN chunkFiles[c].rk.data[d] :
          chunkFiles[c].rk.data[d][t] > 0 =>
            /\ d \in DOMAIN mainFiles.rk.data
            /\ t \in DOMAIN mainFiles.rk.data[d]
            /\ \E c2 \in DOMAIN chunkFiles :
                 /\ d \in DOMAIN chunkFiles[c2].rk.data
                 /\ t \in DOMAIN chunkFiles[c2].rk.data[d]
                 /\ mainFiles.rk.data[d][t] = chunkFiles[c2].rk.data[d][t]

\* ------------------------------------------------------------- unreadable checkpoint
\* C17: while the checkpoint file is there but cannot be parsed, a run of
\* process_commit_chunk does not work from an empty checkpoint: what it
\* holds as checkpoint is not load_checkpoint's default, and it knows the
\* snapshots the file had recorded.
C17_UnreadableNotEmpty ==
  (pc = "loop" /\ ckptFile.exists /\ ~ckptFile.readable) =>
    /\ checkpoint # DefaultCheckpoint
    /\ ckptFile.data.processed_commits \subseteq processed_commits

\* ------------------------------------------------------- the new-domain list
\* the domains of a returned list
Listed(new_domains) == {new_domains[k] : k \in 1..Len(new_domains)}

ExitStatus(raised) == IF raised THEN 1 ELSE 0

\* process_commit_chunk has returned to main (line 195 or line 281, both
\* `return True`); main drops the value (line 394) and runs to its end
ChunkReturned == pc = "done"

\* snapshots of the chunk that could not be fetched or parsed (each ends its
\* iteration in `continue`, lines 215-248) and are not in the checkpoint
StillUnprocessed ==
  {k \in 1..Len(commit_chunk) :
     /\ FetchFails(commit_chunk[k])
     /\ commit_chunk[k] \notin ckptFile.data.processed_commits}

\* C20: the importer ends with status 0 exactly when no snapshot of the chunk
\* failed and is still unprocessed; with such a snapshot the status is not 0
C20_ExitStatusReportsFailure ==
  ChunkReturned => (ExitStatus(FALSE) = 0 <=> StillUnprocessed = {})

\* ------------------------------------------------------ rows of one snapshot
\* the rows the row loop of either script runs over
LoopRows(by, reader) ==
  IF by = "legacy"
    THEN IF reader = <<>> \/ reader[1].n = 0 THEN <<>>
         ELSE IF IsAlpha(reader[1]) THEN Tail(reader) ELSE reader
    ELSE IF reader = <<>> THEN <<>> ELSE DataRows(reader)

\* the row reaches the assignments: it passes the length test and int() parses
RowTaken(by, row) ==
  /\ IF by = "legacy" THEN row.n = 2 ELSE row.n >= 2
  /\ IntParses(row)

\* the merge the last entry of the log stands for
LastMerge == log[Len(log)]

\* C21: when a domain occurs in several rows of one snapshot, the cell for
\* the snapshot's date holds the rank of the domain's first occurrence
C21_FirstOccurrenceKept ==
  log # <<>> =>
    LET data == LoopRows(LastMerge.by, LastMerge.rows)
    IN \A d \in DOMAIN rankings :
         LET occ == {k \in 1..Len(data) :
                       RowTaken(LastMerge.by, data[k]) /\ data[k].domain = d}
         IN occ # {} =>
              /\ LastMerge.date \in DOMAIN rankings[d]
              /\ rankings[d][LastMerge.date] = data[Min(occ)].rank

\* a row with an integer rank, at least two fields and a domain
WellFormedRow(row) == row.n >= 2 /\ IntParses(row) /\ row.domain # ""

\* C22: a merge by the chunked importer gives the domain of every well-formed
\* row the loop runs over (the file minus its header line) a record and a cell for the date holding a rank of such a row, and a
\* domain with no well-formed row gets no record, no first_seen and no cell
\* other than the zero fill of a domain already known
C22_MalformedRowsSkipped ==
  [][(log = <<>> /\ log' # <<>> /\ log'[1].by = "chunked") =>
       LET e == log'[1]
           data == LoopRows(e.by, e.rows)
           wf == {k \in 1..Len(data) : WellFormedRow(data[k])}
           wfDomains == {data[k].domain : k \in wf}
       IN /\ \A d \in wfDomains :
               /\ d \in DOMAIN rankings'
               /\ d \in DOMAIN first_seen'
               /\ e.date \in DOMAIN rankings'[d]
               /\ rankings'[d][e.date] \in
                    {data[k].rank : k \in {j \in wf : data[j].domain = d}}
          /\ \A d \in (DOMAIN rankings' \cup DOMAIN first_seen') \ wfDomains :
               /\ d \in DOMAIN rankings
               /\ d \in DOMAIN rankings'
               /\ (d \in DOMAIN first_seen') => d \in DOMAIN first_seen
               /\ (d \in DOMAIN first_seen') => first_seen'[d] = first_seen[d]
               /\ \A t \in DOMAIN rankings'[d] :
                    \/ t \in DOMAIN rankings[d] /\ rankings'[d][t] = rankings[d][t]
                    \/ t = e.date /\ rankings'[d][t] = 0]_vars

\* C23: a merge of an empty snapshot (no rows at all), by either script,
\* leaves rankings and first_seen as they were and reports 0 domains
C23_EmptySnapshotNoChange ==
  [][(log' # log /\ log'[Len(log')].rows = <<>>) =>
       /\ rankings' = rankings
       /\ first_seen' = first_seen
       /\ Merge(log'[Len(log')].by, <<>>, log'[Len(log')].date,
                rankings, first_seen).updated = 0]_vars

\* an empty snapshot was merged into a store that knows a domain with no
\* cell for the snapshot's date, and the domain still has none
C23_Witness ==
  /\ log # <<>>
  /\ log[1].rows = <<>>
  /\ \E d \in DOMAIN rankings :
       /\ log[1].date \notin DOMAIN rankings[d]
       /\ DOMAIN rankings[d] # {}

\* C24: after a second snapshot is merged for a date already merged, every
\* known domain's cell for that date is its rank in the second snapshot, or
\* 0 when the second snapshot does not hold the domain
C24_RemergeOverwrites ==
  (Len(log) >= 2 /\ \E i \in 1..(Len(log) - 1) : log[i].date = LastMerge.date) =>
    \A d \in DOMAIN rankings :
      IF d \in DomainsOf(LastMerge.rows)
        THEN /\ LastMerge.date \in DOMAIN rankings[d]
             /\ rankings[d][LastMerge.date] = RankIn(LastMerge.rows, d)
        ELSE LastMerge.date \in DOMAIN rankings[d]
               => rankings[d][LastMerge.date] = 0

MaxSqlCalls == 2
BatchSize == 5000

\* a set of dates in ascending order: sorted(year_dates)
RECURSIVE Sorted(_)
Sorted(S) == IF S = {} THEN <<>> ELSE <<Min(S)>> \o Sorted(S \ {Min(S)})

\* the stores update_database is called with
SqlStores ==
  {[rankings |-> r.rankings, first_seen |-> r.first_seen] :
     r \in {ProcessCsvData(<<Row(1, "a.com")>>, 1, EmptyMap, EmptyMap),
            ProcessCsvData(<<Row(1, "a.com"), Row(2, "b.com")>>, 2,
                           ("a.com" :> (1 :> 3)), ("a.com" :> 1)),
            ProcessCsvData(<<Row(2, "b.com")>>, 1, EmptyMap, EmptyMap)}}

\* lines 367-408: both executemany blocks together leave every domain of the
\* store in the domains table with the store's first_seen
UpsertFirstSeen(domains, fs) ==
  [d \in DOMAIN domains \cup DOMAIN fs |-> IF d \in DOMAIN fs THEN fs[d] ELSE domains[d]]

\* lines 486-487: the cells of a domain for the year
YearRankings(store, domain) == store.rankings[domain]

\* lines 499-503: the tuple of a domain not yet in the table, one value per
\* column of sorted(year_dates), 0 where the domain has no cell
InsertValues(store, domain, year_dates) ==
  [t \in year_dates |->
     IF t \in DOMAIN YearRankings(store, domain)
       THEN YearRankings(store, domain)[t] ELSE 0]

\* lines 530-540 applied to the row of a domain the table already holds:
\* `update_data + [domain]` adds a list to a tuple and raises TypeError
\* inside the try, so no UPDATE is executed and the row stays as it is
UpdateExisting(row, vals) == row

SqlInit ==
  /\ sq_disk \in {NoSqlDb,
                  [domains |-> ("a.com" :> 1), table |-> TRUE, cols |-> {1},
                   rows |-> ("a.com" :> (1 :> 3))]}
  /\ sq_conn = sq_disk
  /\ sq_pc = "idle"
  /\ sq_store = [rankings |-> EmptyMap, first_seen |-> EmptyMap]
  /\ sq_before = sq_disk
  /\ sq_i = 0
  /\ sq_failed = {}
  /\ sq_writes = <<>>
  /\ sq_outcome = "none"
  /\ sq_calls = 0
  /\ MergeIdle
  /\ ChunkIdle
  /\ CalcIdle
  /\ TrackIdle
  /\ ReportIdle
  /\ FetchIdle
  /\ DriverIdle

\* lines 336-350: connect and BEGIN TRANSACTION
SqlBegin ==
  /\ sq_pc = "idle"
  /\ sq_calls < MaxSqlCalls
  /\ sq_calls' = sq_calls + 1
  /\ sq_store' \in SqlStores
  /\ sq_before' = sq_disk
  /\ sq_conn' = sq_disk
  /\ sq_pc' = "first_seen"
  /\ sq_i' = 0
  /\ sq_failed' = {}
  /\ sq_writes' = <<>>
  /\ sq_outcome' = "running"
  /\ UNCHANGED sq_disk
  /\ UNCHANGED notSqlVars

\* lines 352-411: the domains table is brought up to date and committed; a
\* statement that raises goes to the outer except, which rolls back
SqlFirstSeen ==
  /\ sq_pc = "first_seen"
  /\ \E ok \in BOOLEAN :
       IF ok
         THEN /\ sq_conn' = [sq_conn EXCEPT
                    !.domains = UpsertFirstSeen(@, sq_store.first_seen)]
              /\ sq_disk' = sq_conn'
              /\ sq_pc' = "table"
              /\ UNCHANGED sq_outcome
         ELSE /\ sq_conn' = sq_disk
              /\ sq_pc' = "idle"
              /\ sq_outcome' = "rolled_back"
              /\ UNCHANGED sq_disk
  /\ UNCHANGED <<sq_store, sq_before, sq_i, sq_failed, sq_writes, sq_calls>>
  /\ UNCHANGED notSqlVars

\* lines 415-440: no year, nothing more to do but the final commit; else
\* CREATE TABLE rankings_<year> unless it exists
SqlCreateTable ==
  /\ sq_pc = "table"
  /\ IF AllDates(sq_store.rankings) = {}
       THEN /\ sq_disk' = sq_conn
            /\ sq_pc' = "idle"
            /\ sq_outcome' = "completed"
            /\ UNCHANGED sq_conn
       ELSE \E ok \in BOOLEAN :
              IF sq_conn.table \/ ok
                THEN /\ sq_conn' = [sq_conn EXCEPT !.table = TRUE]
                     /\ sq_pc' = "columns"
                     /\ UNCHANGED <<sq_disk, sq_outcome>>
                ELSE /\ sq_conn' = sq_disk
                     /\ sq_pc' = "idle"
                     /\ sq_outcome' = "rolled_back"
                     /\ UNCHANGED sq_disk
  /\ sq_i' = 1
  /\ UNCHANGED <<sq_store, sq_before, sq_failed, sq_writes, sq_calls>>
  /\ UNCHANGED notSqlVars

\* lines 455-464: one pass of the column loop; the exception of a failed
\* ALTER TABLE is logged and the loop goes on
SqlAddColumn ==
  /\ sq_pc = "columns"
  /\ sq_i <= Cardinality(AllDates(sq_store.rankings))
  /\ LET date == Sorted(AllDates(sq_store.rankings))[sq_i]
     IN IF date \in sq_conn.cols
          THEN UNCHANGED <<sq_conn, sq_failed>>
          ELSE \E ok \in BOOLEAN :
                 IF ok THEN /\ sq_conn' = [sq_conn EXCEPT !.cols = @ \cup {date}]
                            /\ UNCHANGED sq_failed
                       ELSE /\ sq_failed' = sq_failed \cup {date}
                            /\ UNCHANGED sq_conn
  /\ sq_i' = sq_i + 1
  /\ UNCHANGED <<sq_disk, sq_pc, sq_store, sq_before, sq_writes, sq_outcome,
                 sq_calls>>
  /\ UNCHANGED notSqlVars

\* lines 466-468: the schema is committed
SqlCommitSchema ==
  /\ sq_pc = "columns"
  /\ sq_i > Cardinality(AllDates(sq_store.rankings))
  /\ sq_disk' = sq_conn
  /\ sq_pc' = "rows"
  /\ UNCHANGED <<sq_conn, sq_store, sq_before, sq_i, sq_failed, sq_writes,
                 sq_outcome, sq_calls>>
  /\ UNCHANGED notSqlVars

\* lines 470-549: the batch of all domains (there are fewer than BatchSize):
\* one INSERT naming every column of year_dates for the domains the table
\* lacks, nothing for the others, then the commits
SqlWriteRows ==
  /\ sq_pc = "rows"
  /\ Cardinality(DOMAIN sq_store.rankings) <= BatchSize
  /\ LET year_dates == AllDates(sq_store.rankings)
         with_cells == {d \in DOMAIN sq_store.rankings :
                          DOMAIN YearRankings(sq_store, d) # {}}
         domains_to_insert == with_cells \ DOMAIN sq_conn.rows
         domains_to_update == with_cells \cap DOMAIN sq_conn.rows
         updated == [d \in DOMAIN sq_conn.rows |->
                       IF d \in domains_to_update
                         THEN UpdateExisting(sq_conn.rows[d], YearRankings(sq_store, d))
                         ELSE sq_conn.rows[d]]
     IN IF domains_to_insert = {}
          THEN /\ sq_conn' = [sq_conn EXCEPT !.rows = updated]
               /\ UNCHANGED sq_writes
          ELSE \E ok \in BOOLEAN :
                 /\ sq_writes' = Append(sq_writes,
                      [statement |-> "insert", columns |-> year_dates,
                       committed |-> sq_disk.cols, failed |-> sq_failed,
                       ok |-> ok /\ year_dates \subseteq sq_conn.cols])
                 /\ IF ok /\ year_dates \subseteq sq_conn.cols
                      THEN sq_conn' = [sq_conn EXCEPT !.rows =
                             [d \in DOMAIN updated \cup domains_to_insert |->
                                IF d \in domains_to_insert
                                  THEN InsertValues(sq_store, d, year_dates)
                                  ELSE updated[d]]]
                      ELSE sq_conn' = [sq_conn EXCEPT !.rows = updated]
  /\ sq_disk' = sq_conn'
  /\ sq_pc' = "idle"
  /\ sq_outcome' = "completed"
  /\ UNCHANGED <<sq_store, sq_before, sq_i, sq_failed, sq_calls>>
  /\ UNCHANGED notSqlVars

SqlNext ==
  \/ SqlBegin
  \/ SqlFirstSeen
  \/ SqlCreateTable
  \/ SqlAddColumn
  \/ SqlCommitSchema
  \/ SqlWriteRows

SpecSql == SqlInit /\ [][SqlNext]_vars

\* C26: every date column a row statement on the rankings table names was
\* in the committed table before the statement ran, and no row statement
\* names a column whose ALTER TABLE failed
C26_ColumnsBeforeRows ==
  \A k \in 1..Len(sq_writes) :
    /\ sq_writes[k].columns \subseteq sq_writes[k].committed
    /\ sq_writes[k].columns \cap sq_writes[k].failed = {}

\* a statement of the latest call failed
SqlSomethingFailed ==
  \/ sq_outcome = "rolled_back"
  \/ sq_failed # {}
  \/ \E k \in 1..Len(sq_writes) : ~sq_writes[k].ok

\* C27: after a call in which a statement failed the database file is as it
\* was before the call; after any other call it holds the first_seen of
\* every domain of the store and every rank cell of the store
C27_AllOrNothing ==
  (sq_pc = "idle" /\ sq_calls > 0) =>
    IF SqlSomethingFailed
      THEN sq_disk = sq_before
      ELSE /\ \A d \in DOMAIN sq_store.first_seen :
                d \in DOMAIN sq_disk.domains
                  /\ sq_disk.domains[d] = sq_store.first_seen[d]
           /\ \A d \in DOMAIN sq_store.rankings :
                \A t \in DOMAIN sq_store.rankings[d] :
                  /\ d \in DOMAIN sq_disk.rows
                  /\ t \in DOMAIN sq_disk.rows[d]
                  /\ sq_disk.rows[d][t] = sq_store.rankings[d][t]

\* ------------------------------------------------------ the sentinel values
\* C28: for ranks in 0..1000000 a row is labelled new entrant exactly when
\* start = 0 and end > 0, dropped out exactly when start > 0 and end = 0,
\* and a percentage is computed exactly for two positive ranks, from their
\* difference, which is neither sentinel
C28_SentinelUnambiguous ==
  result.kind = "frame" =>
    \A d \in DOMAIN result.rows :
      LET r == result.rows[d]
      IN /\ r.change_percent.kind = "new" <=> (r.start_rank = 0 /\ r.end_rank > 0)
         /\ r.change_percent.kind = "dropped" <=> (r.start_rank > 0 /\ r.end_rank = 0)
         /\ r.change_percent.kind = "percent" <=> (r.start_rank > 0 /\ r.end_rank > 0)
         /\ r.change_percent.kind = "percent" =>
              /\ r.rank_change = r.start_rank - r.end_rank
              /\ r.rank_change \notin {NewEntrant, DroppedOut}

\* the largest difference two positive ranks can have, next to a new entrant
C28_Witness ==
  /\ result.kind = "frame"
  /\ result.rows["a.com"].start_rank = 1000000
  /\ result.rows["a.com"].end_rank = 1
  /\ result.rows["a.com"].rank_change = 999999
  /\ result.rows["a.com"].change_percent.kind = "percent"
  /\ result.rows["b.com"].start_rank = 0
  /\ result.rows["b.com"].end_rank = 1000000
  /\ result.rows["b.com"].change_percent.kind = "new"

\* --------------------------------------------------- the analyzer's report
(***************************************************************************)
(* generate_report(changes_df, ..): the three lists it writes.  A row of   *)
(* changes_df is reduced to its position in the frame (id, standing for    *)
(* the domain) and its rank_change.  sort_values uses a sort that is not   *)
(* stable, so rows with equal keys may come out in either order: tie says  *)
(* which.                                                                  *)
(***************************************************************************)
HeadTop == 100
HeadRising == 50
HeadFalling == 50

Abs(x) == IF x < 0 THEN -x ELSE x

\* the frames the report is made from: n rows whose rank_change follows a
\* pattern mixing rises, falls, zeros, ties and the two sentinels
FrameSizes == {0, 1, 3, 60, 120}
FrameShapes == {"mixed", "rising", "falling", "sentinels"}
RankChangeAt(k, shape, step, spread) ==
  LET v == (k * step) % 11
  IN IF shape = "mixed" THEN (v - 5) * spread
     ELSE IF shape = "rising" THEN (v + 1) * spread
     ELSE IF shape = "falling" THEN (0 - v - 1) * spread
     ELSE IF v < 3 THEN NewEntrant
     ELSE IF v < 6 THEN DroppedOut
     ELSE (v - 8) * spread

Frames ==
  {[k \in 1..n |-> [id |-> k, rank_change |-> RankChangeAt(k, shape, step, spread)]] :
     n \in FrameSizes, shape \in FrameShapes, step \in {3, 7}, spread \in {1, 100}}

\* a function written out argument by argument (evaluated once, not at
\* every application)
Tabulated(f) == f @@ << >>

\* df[cond]: the rows that satisfy cond, in frame order, with their sort key
Select(rows, want) ==
  LET Change(k) == rows[k].rank_change
      kept == {k \in 1..Len(rows) :
                 IF want = "nonzero" THEN Change(k) # 0
                 ELSE IF want = "positive" THEN Change(k) > 0 ELSE Change(k) < 0}
      place == Tabulated([k \in kept |-> Cardinality({j \in kept : j <= k})])
  IN Tabulated([p \in 1..Cardinality(kept) |->
       LET k == CHOOSE k \in kept : place[k] = p
       IN [id |-> rows[k].id, rank_change |-> Change(k),
           key |-> IF want = "nonzero" THEN Abs(Change(k))
                   ELSE IF want = "positive" THEN Change(k) ELSE 0 - Change(k)]])

\* sort_values left out: the rows stay in frame order
SortValuesSkipped(keyed, tie) == keyed

\* sort_values(.., ascending=False) on the key (for the fallers the key is
\* the negated rank_change, which is sort_values(.., ascending=True)): each
\* row goes to the place after the rows with a larger key and after the
\* rows with the same key that the tie rule puts before it
SortValues(keyed, tie) ==
  LET place == Tabulated([k \in 1..Len(keyed) |->
                 1 + Cardinality({j \in 1..Len(keyed) :
                       \/ keyed[j].key > keyed[k].key
                       \/ /\ keyed[j].key = keyed[k].key
                          /\ IF tie = "first" THEN j < k ELSE j > k})])
  IN Tabulated([p \in 1..Len(keyed) |->
       keyed[CHOOSE k \in 1..Len(keyed) : place[k] = p]])

\* .head(n)
HeadOf(rows, n) == SubSeq(rows, 1, IF Len(rows) < n THEN Len(rows) ELSE n)

ReportInit ==
  /\ rp_frame \in Frames
  /\ rp_report = [kind |-> "unset"]
  /\ MergeIdle
  /\ ChunkIdle
  /\ CalcIdle
  /\ TrackIdle
  /\ SqlIdle
  /\ FetchIdle
  /\ DriverIdle

\* a call of generate_report(changes_df, ..)
GenerateReport ==
  /\ rp_report.kind = "unset"
  /\ \E tie \in {"first", "last"} :
       rp_report' =
         IF Len(rp_frame) = 0 THEN [kind |-> "none"]
         ELSE [kind |-> "written",
               top_changes |-> HeadOf(SortValues(Select(rp_frame, "nonzero"), tie), HeadTop),
               rising_domains |-> HeadOf(SortValues(Select(rp_frame, "positive"), tie), HeadRising),
               falling_domains |-> HeadOf(SortValues(Select(rp_frame, "negative"), tie), HeadFalling)]
  /\ UNCHANGED rp_frame
  /\ UNCHANGED <<mergeVars, chunkVars, calcVars, trackVars, sqlVars, fetchVars,
                 driverVars>>

SpecReport == ReportInit /\ [][GenerateReport]_vars

\* the ids of the rows of a list
IdsOf(rows) == {rows[k].id : k \in 1..Len(rows)}

\* list holds n rows of the frame, or all that satisfy want if there are
\* fewer, each once, and no row left out satisfies want with a larger key
IsSelection(list, n, want) ==
  LET all == Select(rp_frame, want)
  IN /\ Len(list) = (IF Len(all) < n THEN Len(all) ELSE n)
     /\ Cardinality(IdsOf(list)) = Len(list)
     /\ \A k \in 1..Len(list) :
          \E j \in 1..Len(all) : all[j].id = list[k].id
                                  /\ all[j].rank_change = list[k].rank_change
     /\ \A j \in 1..Len(all) :
          all[j].id \notin IdsOf(list) =>
            \A k \in 1..Len(list) : all[j].key <= list[k].key

\* C29: the top list has at most 100 rows, none with rank_change 0, and
\* holds the largest absolute changes; the risers are at most 50 rows with
\* rank_change > 0 and none left out rose more; the fallers are at most 50
\* rows with rank_change < 0 and none left out fell more; no row is in both
C29_ReportSelection ==
  rp_report.kind = "written" =>
    /\ Len(rp_report.top_changes) <= 100
    /\ \A k \in 1..Len(rp_report.top_changes) :
         rp_report.top_changes[k].rank_change # 0
    /\ IsSelection(rp_report.top_changes, 100, "nonzero")
    /\ Len(rp_report.rising_domains) <= 50
    /\ \A k \in 1..Len(rp_report.rising_domains) :
         rp_report.rising_domains[k].rank_change > 0
    /\ IsSelection(rp_report.rising_domains, 50, "positive")
    /\ Len(rp_report.falling_domains) <= 50
    /\ \A k \in 1..Len(rp_report.falling_domains) :
         rp_report.falling_domains[k].rank_change < 0
    /\ IsSelection(rp_report.falling_domains, 50, "negative")
    /\ IdsOf(rp_report.rising_domains) \cap IdsOf(rp_report.falling_domains) = {}

\* a report from a frame with more rows of each kind than the lists take
C29_Witness ==
  /\ rp_report.kind = "written"
  /\ Len(rp_frame) = 120
  /\ Len(rp_report.top_changes) = 100
  /\ Len(rp_report.rising_domains) = 50
  /\ Len(rp_report.falling_domains) = 50
  /\ Len(Select(rp_frame, "positive")) > 50
  /\ Len(Select(rp_frame, "negative")) > 50

\* --------------------------------------------------- the born-date lookup
(***************************************************************************)
(* fetch_borndate(domain, session) and the lookup_domain_borndate it       *)
(* awaits.  fb_net[k] is what the k-th HTTP request of the call meets.     *)
(***************************************************************************)
RETRY == 3

\* status 200 with a createdDate, status 200 without one, status 200 with a
\* body that is not JSON, another status, a connection error, a timeout
Responses == {"born", "no_date", "bad_json", "non_200", "net_error", "timeout"}

\* the lookups the claim calls failed
FailedLookups == {"non_200", "net_error", "timeout"}

\* lookup_domain_borndate, lines 19-28: the parsed date for status 200, None
\* for any other status, and None after its own except caught the exception
\* of the request or of response.json()
LookupDomainBorndate(response) ==
  IF response = "born" THEN [kind |-> "date"] ELSE [kind |-> "None"]

FetchInit ==
  /\ fb_session \in BOOLEAN
  /\ fb_net \in [1..RETRY -> Responses]
  /\ fb_pc = "idle"
  /\ fb_attempt = 0
  /\ fb_requests = 0
  /\ fb_sleeps = 0
  /\ fb_result = [kind |-> "unset"]
  /\ MergeIdle
  /\ ChunkIdle
  /\ CalcIdle
  /\ TrackIdle
  /\ SqlIdle
  /\ ReportIdle
  /\ DriverIdle

\* fetch_borndate is called: for attempt in range(1, RETRY+1)
FetchBorndate ==
  /\ fb_pc = "idle"
  /\ fb_pc' = "attempt"
  /\ fb_attempt' = 1
  /\ UNCHANGED <<fb_session, fb_net, fb_requests, fb_sleeps, fb_result>>
  /\ UNCHANGED <<mergeVars, chunkVars, calcVars, trackVars, sqlVars, reportVars,
                 driverVars>>

\* one pass of the loop up to its return or its sleep: without a session
\* the lookup raises ValueError before any request (lines 17-18); with one,
\* it sends a request and gives what LookupDomainBorndate gives
Attempt ==
  /\ fb_pc = "attempt"
  /\ LET got == IF fb_session THEN LookupDomainBorndate(fb_net[fb_requests + 1])
                              ELSE [kind |-> "raise"]
     IN /\ fb_requests' = IF fb_session THEN fb_requests + 1 ELSE fb_requests
        /\ IF got.kind # "raise"
             THEN fb_result' = got /\ fb_pc' = "returned"
             ELSE IF fb_attempt = RETRY
                    THEN fb_result' = [kind |-> "error"] /\ fb_pc' = "returned"
                    ELSE fb_pc' = "sleep" /\ UNCHANGED fb_result
  /\ UNCHANGED <<fb_session, fb_net, fb_attempt, fb_sleeps>>
  /\ UNCHANGED <<mergeVars, chunkVars, calcVars, trackVars, sqlVars, reportVars,
                 driverVars>>

\* await asyncio.sleep(1), then the next attempt
SleepThenRetry ==
  /\ fb_pc = "sleep"
  /\ fb_sleeps' = fb_sleeps + 1
  /\ fb_attempt' = fb_attempt + 1
  /\ fb_pc' = "attempt"
  /\ UNCHANGED <<fb_session, fb_net, fb_requests, fb_result>>
  /\ UNCHANGED <<mergeVars, chunkVars, calcVars, trackVars, sqlVars, reportVars,
                 driverVars>>

SpecFetch == FetchInit /\ [][FetchBorndate \/ Attempt \/ SleepThenRetry]_vars

\* the requests of fb_net that do not fail
NotFailing == {k \in 1..3 : fb_net[k] \notin FailedLookups}

\* C30: with a session, a lookup that fails three times is tried three
\* times with two pauses between and ends as 'error: ...'; one that fails
\* and then finds the born date on attempt 2 or 3 is tried that often and
\* yields the date
C30_RetriesBeforeError ==
  (fb_pc = "returned" /\ fb_session) =>
    IF NotFailing = {}
      THEN /\ fb_requests = 3
           /\ fb_sleeps = 2
           /\ fb_result.kind = "error"
      ELSE /\ fb_requests = Min(NotFailing)
           /\ fb_sleeps = Min(NotFailing) - 1
           /\ fb_net[Min(NotFailing)] = "born" => fb_result.kind = "date"

\* ------------------------------------------------ the checkpoint of a chunk
\* C33: when process_commit_chunk has finished a chunk, every snapshot it
\* merged during the call is listed in processed_commits of the checkpoint
\* file (the local set holds the entries loaded at the start, which the file
\* keeps, and the snapshots merged since)
C33_MergedAreListed ==
  ChunkReturned => processed_commits \subseteq ckptFile.data.processed_commits

\* C39: save_domains_history called for a chunk writes the files of that
\* chunk only; the main store files stay as they were before the import
C39_ChunkSaveLeavesMain ==
  /\ mainFiles = main0
  /\ DOMAIN chunkFiles \subseteq {chunk_id}

\* C40: after the first call of process_commit_chunk (the checkpoint started
\* at 0) total_domains_updated of the checkpoint is the sum of the
\* domains_updated counts of the snapshots merged in the call
C40_TotalIsSumOfCounts ==
  (ChunkReturned /\ runs = 1) =>
    ckptFile.data.total_domains_updated = total_domains_updated

\* -------------------------------------------------- what one merge may touch
\* the domains of the rows the row loop of a merge assigns from
TakenDomains(e) ==
  LET data == LoopRows(e.by, e.rows)
  IN {data[k].domain : k \in {j \in 1..Len(data) : RowTaken(e.by, data[j])}}

\* C35: process_csv_data for date t, by either script, removes no domain and
\* no cell, changes and adds no cell of a date other than t, and changes or
\* adds first_seen only for domains that appear in the snapshot
C35_MergeIsLocal ==
  [][log' # log =>
       LET e == log'[Len(log')]
       IN /\ DOMAIN rankings \subseteq DOMAIN rankings'
          /\ DOMAIN first_seen \subseteq DOMAIN first_seen'
          /\ \A d \in DOMAIN rankings : \A t \in DOMAIN rankings[d] :
               /\ t \in DOMAIN rankings'[d]
               /\ t # e.date => rankings'[d][t] = rankings[d][t]
          /\ \A d \in DOMAIN rankings' : \A t \in DOMAIN rankings'[d] :
               t # e.date => (d \in DOMAIN rankings /\ t \in DOMAIN rankings[d])
          /\ \A d \in DOMAIN first_seen' \ TakenDomains(e) :
               /\ d \in DOMAIN first_seen
               /\ first_seen'[d] = first_seen[d]]_vars

\* a snapshot was merged into a store that held cells of another date, for a
\* domain of the snapshot and for a domain the snapshot does not hold
C35_Witness ==
  /\ Len(log) = 1
  /\ \E d \in TakenDomains(LastMerge), o \in DOMAIN rankings \ TakenDomains(LastMerge) :
       /\ d \in DOMAIN rankings
       /\ \E t \in DOMAIN rankings[d] : t # LastMerge.date
       /\ \E t \in DOMAIN rankings[o] : t # LastMerge.date /\ rankings[o][t] # 0
       /\ o \in DOMAIN first_seen

\* ------------------------------------------------- the two maps of the store
\* C36: after any merges rankings and first_seen hold the same domains, every
\* domain has a cell at its first_seen date, and no cell dated before a
\* domain's first_seen holds a positive rank
C36_MapsConsistent ==
  /\ DOMAIN rankings = DOMAIN first_seen
  /\ \A d \in DOMAIN first_seen : first_seen[d] \in DOMAIN rankings[d]
  /\ \A d \in DOMAIN rankings : \A t \in DOMAIN rankings[d] :
       rankings[d][t] > 0 => t >= first_seen[d]

\* merges have left a domain with a cell before its first_seen and a domain
\* whose first_seen was lowered below a date it has a rank for
C36_Witness ==
  /\ Len(log) >= 1
  /\ DOMAIN rankings = DOMAIN first_seen
  /\ \E d \in DOMAIN rankings : \E t \in DOMAIN rankings[d] : t < first_seen[d]
  /\ \E d \in DOMAIN rankings :
       /\ first_seen[d] = LastMerge.date
       /\ \E t \in DOMAIN rankings[d] : t > first_seen[d] /\ rankings[d][t] > 0

\* ------------------------------------------------ the database and the store
\* C37: no step of update_database makes the first_seen the domains table
\* holds for a domain later than it was, or drops the domain
C37_FirstSeenNeverLater ==
  [][\A d \in DOMAIN sq_disk.domains :
       /\ d \in DOMAIN sq_disk'.domains
       /\ sq_disk'.domains[d] <= sq_disk.domains[d]]_vars

\* C38: after a call of update_database in which no statement failed, every
\* cell of the store is in the rankings table: the column of its date exists
\* and holds the cell's value in the row of its domain, whether the call
\* inserted the row or found it
C38_DatabaseAgreesWithStore ==
  (sq_outcome = "completed" /\ ~SqlSomethingFailed) =>
    \A d \in DOMAIN sq_store.rankings : \A t \in DOMAIN sq_store.rankings[d] :
      /\ t \in sq_disk.cols
      /\ d \in DOMAIN sq_disk.rows
      /\ t \in DOMAIN sq_disk.rows[d]
      /\ sq_disk.rows[d][t] = sq_store.rankings[d][t]

\* ------------------------------------------------- enrichment of new domains
\* the lengths of batch_domains: none, one, the claimed limit and one more,
\* and the slice of 1000 that process_domains cuts (BATCH_SIZE, line 131)
BatchLengths == {0, 1, 100, 101, 1000}

BatchInit ==
  /\ bt_txt_files \in {0, 1}
  /\ bt_pc = "idle"
  /\ bt_batch = 0
  /\ bt_in_flight = 0
  /\ bt_results = 0
  /\ MergeIdle
  /\ ChunkIdle
  /\ CalcIdle
  /\ TrackIdle
  /\ SqlIdle
  /\ ReportIdle
  /\ FetchIdle
  /\ OrderIdle
  /\ CursorIdle

\* process_domains, lines 107-140: with no .txt file the loop body never
\* runs; with one, line 121 evaluates datetime.now(), the module imports no
\* datetime, and NameError ends the call before the file is read
ProcessDomains ==
  /\ bt_pc = "idle"
  /\ bt_pc' = IF bt_txt_files = 0 THEN "returned" ELSE "raised"
  /\ UNCHANGED <<bt_txt_files, bt_batch, bt_in_flight, bt_results>>
  /\ UNCHANGED <<notDriverVars, orderVars, cursorVars>>

\* process_batch(batch_domains), lines 99-103: one fetch_borndate coroutine
\* per domain of the batch, all handed to asyncio.gather at once
ProcessBatch ==
  /\ bt_pc = "idle"
  /\ \E n \in BatchLengths :
       /\ bt_batch' = n
       /\ bt_in_flight' = n
  /\ bt_results' = 0
  /\ bt_pc' = "gather"
  /\ UNCHANGED bt_txt_files
  /\ UNCHANGED <<notDriverVars, orderVars, cursorVars>>

\* one of the gathered fetch_borndate tasks returns its pair
FetchReturns ==
  /\ bt_pc = "gather"
  /\ bt_in_flight > 0
  /\ bt_in_flight' = bt_in_flight - 1
  /\ UNCHANGED <<bt_txt_files, bt_pc, bt_batch, bt_results>>
  /\ UNCHANGED <<notDriverVars, orderVars, cursorVars>>

\* lines 103-105: gather is done, the pairs are appended and returned
BatchReturns ==
  /\ bt_pc = "gather"
  /\ bt_in_flight = 0
  /\ bt_results' = bt_batch
  /\ bt_pc' = "returned"
  /\ UNCHANGED <<bt_txt_files, bt_batch, bt_in_flight>>
  /\ UNCHANGED <<notDriverVars, orderVars, cursorVars>>

BatchNext == ProcessDomains \/ ProcessBatch \/ FetchReturns \/ BatchReturns

SpecBatch == BatchInit /\ [][BatchNext]_vars

\* C31: during enrichment no more than 100 lookups are in flight at the same
\* time
C31_InFlightBounded == bt_in_flight <= 100

\* ------------------------------------------------- chunks asked for in any order
MaxOrderId == 2
MaxOrderCalls == 3

\* the chunk ids main passes: args.chunk_id (from 0) with --chunk-id, i + 1
\* in its own loop
OrderIds == 0..MaxOrderId

OrderInit ==
  /\ or_last = NoChunk
  /\ or_calls = <<>>
  /\ MergeIdle
  /\ ChunkIdle
  /\ CalcIdle
  /\ TrackIdle
  /\ SqlIdle
  /\ ReportIdle
  /\ FetchIdle
  /\ BatchIdle
  /\ CursorIdle

\* one call of process_commit_chunk for chunk k, seen from the checkpoint:
\* it returns at line 195, or runs to line 274 and names k in the checkpoint,
\* or is killed before that
InvokeChunk ==
  /\ Len(or_calls) < MaxOrderCalls
  /\ \E k \in OrderIds :
       IF ChunkAlreadyProcessed(
            [DefaultCheckpoint EXCEPT !.last_processed_chunk = or_last], k)
         THEN /\ or_calls' = Append(or_calls, [chunk_id |-> k, outcome |-> "skipped"])
              /\ UNCHANGED or_last
         ELSE \E finished \in BOOLEAN :
                IF finished
                  THEN /\ or_last' = k
                       /\ or_calls' =
                            Append(or_calls, [chunk_id |-> k, outcome |-> "completed"])
                  ELSE /\ UNCHANGED or_last
                       /\ or_calls' =
                            Append(or_calls, [chunk_id |-> k, outcome |-> "killed"])
  /\ UNCHANGED <<notDriverVars, batchVars, cursorVars>>

SpecOrder == OrderInit /\ [][InvokeChunk]_vars

\* C32: a call for chunk k returns at once as 'already processed' only if an
\* earlier call for chunk k itself ran to completion
C32_SkipOnlyAfterCompletion ==
  \A i \in 1..Len(or_calls) :
    or_calls[i].outcome = "skipped" =>
      \E j \in 1..(i - 1) :
        /\ or_calls[j].chunk_id = or_calls[i].chunk_id
        /\ or_calls[j].outcome = "completed"

\* ------------------------------------------------------------ the date cursor
MaxCursorRuns == 4

\* historical_commits.txt: one commit per date, sorted by date
all_commits == [k \in 1..MaxDate |-> k]

\* what one pass of the loop can meet: curl exits non-zero; tranco.zip holds
\* a ranking list; curl saved something that is no such zip (an error page, a
\* cut-off file); the child python process dies on an uncaught exception
CommitOutcomes == {"curl_failed", "zip", "not_zip", "child_died"}

\* lines 144-148: the commits dated after the cursor, all of them without one
CommitsToProcess(last_processed_date) ==
  IF last_processed_date # NoDate
    THEN SelectSeq(all_commits, LAMBDA c : c > last_processed_date)
    ELSE all_commits

\* process_single_commit(commit_hash, commit_date) of import_historical_data.py:
\* what it returns and whether it saved the merged store
ProcessSingleCommit(commit_date, last_date, kind) ==
  IF last_date # NoDate /\ last_date >= commit_date
    THEN [returned |-> TRUE, saved |-> FALSE]
    ELSE IF kind = "zip"
           THEN [returned |-> TRUE, saved |-> TRUE]
           ELSE [returned |-> FALSE, saved |-> FALSE]

\* result.returncode of `python -c "...; process_single_commit(..)"`: the
\* value the function returns is dropped, only a dying interpreter gives
\* a status other than 0
ChildReturnCode(died, returned) == IF died THEN 1 ELSE 0

CursorInit ==
  /\ cu_cursor = NoDate
  /\ cu_pc = "idle"
  /\ cu_todo = <<>>
  /\ cu_k = 0
  /\ cu_count = 0
  /\ cu_max = 0
  /\ cu_saved = {}
  /\ cu_runs = 0
  /\ MergeIdle
  /\ ChunkIdle
  /\ CalcIdle
  /\ TrackIdle
  /\ SqlIdle
  /\ ReportIdle
  /\ FetchIdle
  /\ BatchIdle
  /\ OrderIdle

\* main of process_commits.py up to the loop
CursorStart ==
  /\ cu_pc = "idle"
  /\ cu_runs < MaxCursorRuns
  /\ cu_runs' = cu_runs + 1
  /\ cu_max' \in {1, 50}
  /\ cu_todo' = CommitsToProcess(cu_cursor)
  /\ cu_k' = 1
  /\ cu_count' = 0
  /\ cu_pc' = IF CommitsToProcess(cu_cursor) = <<>> THEN "idle" ELSE "loop"
  /\ UNCHANGED <<cu_cursor, cu_saved>>
  /\ UNCHANGED <<notDriverVars, batchVars, orderVars>>

\* one pass of the loop over commits_to_process
CursorCommit ==
  /\ cu_pc = "loop"
  /\ \E kind \in CommitOutcomes :
       LET commit_date == cu_todo[cu_k]
           r == ProcessSingleCommit(commit_date, cu_cursor, kind)
           ran == kind \in {"zip", "not_zip"}
           returncode == ChildReturnCode(kind = "child_died", r.returned)
           advanced == kind # "curl_failed" /\ returncode = 0
           stop == advanced /\ cu_count + 1 >= cu_max
       IN /\ cu_saved' = IF ran /\ r.saved THEN cu_saved \cup {commit_date}
                                           ELSE cu_saved
          /\ cu_cursor' = IF advanced THEN commit_date ELSE cu_cursor
          /\ cu_count' = IF advanced THEN cu_count + 1 ELSE cu_count
          /\ cu_pc' = IF stop \/ cu_k = Len(cu_todo) THEN "idle" ELSE "loop"
  /\ cu_k' = cu_k + 1
  /\ UNCHANGED <<cu_todo, cu_max, cu_runs>>
  /\ UNCHANGED <<notDriverVars, batchVars, orderVars>>

SpecCursor == CursorInit /\ [][CursorStart \/ CursorCommit]_vars

\* C34: every snapshot dated on or before the date in last_processed_date.txt
\* has been merged and saved
C34_CursorImpliesSaved ==
  cu_cursor # NoDate =>
    \A k \in 1..Len(all_commits) :
      all_commits[k] <= cu_cursor => all_commits[k] \in cu_saved

=============================================================================
